---------------------------- MODULE Spec2Model ----------------------------
(***************************************************************************)
(* express-version-api: the version parser, the matcher, the handler       *)
(* compiler, the version extractor and the dispatch middleware.            *)
(*                                                                         *)
(* Text is a sequence of one-character strings, so that parsing and        *)
(* formatting are computed character by character as the code does.        *)
(***************************************************************************)
EXTENDS Integers, Sequences, FiniteSets, TLC

VARIABLES
    pc,          \* position of the run: which operation has acted
    text,        \* the text handed to parseVersion (client version text)
    rangeText,   \* the text handed to parseVersionRange (handler key)
    parsed,      \* result of parseVersion(text)
    parsedRange, \* result of parseVersionRange(rangeText)
    satisfied,   \* result of versionSatisfies(parsed, parsedRange)
    mw,          \* the middleware instance: frozen config + compiled handlers
    req,         \* the request being handled
    res,         \* what handling the request did: handler invoked, response, hook
    patternLastIndex  \* the lastIndex of the RegExp object config.extraction.path.pattern

vars == <<pc, text, rangeText, parsed, parsedRange, satisfied, mw, req, res, patternLastIndex>>

-----------------------------------------------------------------------------
(* Bounds of the model *)

\* version components 0..MaxComponent are enumerated for the parser
MaxComponent == 11

\* version components 0..MaxMatchComponent are enumerated for the matcher
MaxMatchComponent == 3

\* a handler map holds at most MaxHandlers keys
MaxHandlers == 3

\* one middleware instance serves at most MaxRequests requests
MaxRequests == 3

-----------------------------------------------------------------------------
(* JavaScript values *)

\* null / undefined of an object-valued result
Null == [null |-> TRUE]

\* undefined of a string-valued slot (an unmatched capture group, an absent header)
Undefined == <<"undefined">>

\* parseInt's NaN; below every number the code compares it with
NaN == 0 - 1

isNaN(n) == n = NaN

DigitChars == <<"0", "1", "2", "3", "4", "5", "6", "7", "8", "9">>

IsDigit(c) == \E i \in 1..10 : DigitChars[i] = c

DigitValue(c) == (CHOOSE i \in 1..10 : DigitChars[i] = c) - 1

IsSpace(c) == c = " "

\* String.prototype.trim
RECURSIVE TrimStart(_)
TrimStart(s) ==
    IF s # <<>> /\ IsSpace(Head(s)) THEN TrimStart(Tail(s)) ELSE s

RECURSIVE TrimEnd(_)
TrimEnd(s) ==
    IF s # <<>> /\ IsSpace(s[Len(s)]) THEN TrimEnd(SubSeq(s, 1, Len(s) - 1)) ELSE s

Trim(s) == TrimEnd(TrimStart(s))

\* first index >= i of s that holds no digit (Len(s) + 1 when the digits run to the end)
RECURSIVE SkipDigits(_, _)
SkipDigits(s, i) ==
    IF i <= Len(s) /\ IsDigit(s[i]) THEN SkipDigits(s, i + 1) ELSE i

\* parseInt(str, 10): the value of the leading run of digits, NaN when there is none
RECURSIVE DigitsValue(_, _)
DigitsValue(s, acc) ==
    IF s # <<>> /\ IsDigit(Head(s))
    THEN DigitsValue(Tail(s), acc * 10 + DigitValue(Head(s)))
    ELSE acc

\* a plausible slip: only the first digit is read
parseInt_FirstDigit(s) ==
    IF s # <<>> /\ IsDigit(Head(s)) THEN DigitValue(Head(s)) ELSE NaN

parseInt(s) ==
    IF s # <<>> /\ IsDigit(Head(s)) THEN DigitsValue(s, 0) ELSE NaN

\* Number.prototype.toString for a non-negative integer
RECURSIVE toString(_)
toString(n) ==
    IF n < 10 THEN <<DigitChars[n + 1]>>
    ELSE toString(n \div 10) \o <<DigitChars[(n % 10) + 1]>>

\* s.replace(/^[\^~]/, '')
StripPrefix(s) ==
    IF s # <<>> /\ Head(s) \in {"^", "~"} THEN Tail(s) ELSE s

\* s.split('.').length
RECURSIVE SplitCount(_)
SplitCount(s) ==
    IF s = <<>> THEN 1
    ELSE (IF Head(s) = "." THEN 1 ELSE 0) + SplitCount(Tail(s))

-----------------------------------------------------------------------------
(* Version parser *)

NoMatch == [match |-> FALSE]

\* (?:\.(\d+))? tried at index p of s: the index after the group when it
\* matches, p itself when it is skipped
OptionalGroupEnd(s, p) ==
    IF p <= Len(s) /\ s[p] = "." /\ SkipDigits(s, p + 1) > p + 1
    THEN SkipDigits(s, p + 1)
    ELSE p

\* the match of VERSION_REGEX with the major digits in p0..p1-1, the minor
\* group ending before p2, the patch group ending before p3
RegexGroups(s, p0, p1, p2, p3) ==
    IF p1 > p0 /\ p3 = Len(s) + 1
    THEN [match    |-> TRUE,
          prefix   |-> IF p0 = 2 THEN <<s[1]>> ELSE Undefined,
          majorStr |-> SubSeq(s, p0, p1 - 1),
          minorStr |-> IF p2 > p1 THEN SubSeq(s, p1 + 1, p2 - 1) ELSE Undefined,
          patchStr |-> IF p3 > p2 THEN SubSeq(s, p2 + 1, p3 - 1) ELSE Undefined]
    ELSE NoMatch

RegexAfterMinor(s, p0, p1, p2) == RegexGroups(s, p0, p1, p2, OptionalGroupEnd(s, p2))

RegexAfterMajor(s, p0, p1) == RegexAfterMinor(s, p0, p1, OptionalGroupEnd(s, p1))

RegexAfterPrefix(s, p0) == RegexAfterMajor(s, p0, SkipDigits(s, p0))

\* VERSION_REGEX.exec(s) for /^(\^|~)?(\d+)(?:\.(\d+))?(?:\.(\d+))?$/ :
\* the capture groups, or NoMatch
VERSION_REGEX(s) ==
    RegexAfterPrefix(s, IF Len(s) >= 1 /\ s[1] \in {"^", "~"} THEN 2 ELSE 1)

\* str ?? '0'
OrZero(str) == IF str = Undefined THEN <<"0">> ELSE str

\* parseVersion after the regular expression has run on the trimmed text
VersionOfMatch(match, trimmed) ==
    IF ~match.match THEN Null
    ELSE LET major == parseInt(OrZero(match.majorStr))
             minor == parseInt(OrZero(match.minorStr))
             patch == parseInt(OrZero(match.patchStr))
         IN  IF isNaN(major) \/ isNaN(minor) \/ isNaN(patch) THEN Null
             ELSE IF major < 0 \/ minor < 0 \/ patch < 0 THEN Null
             ELSE [major |-> major, minor |-> minor, patch |-> patch,
                   raw |-> trimmed]

ParseTrimmedVersion(trimmed) == VersionOfMatch(VERSION_REGEX(trimmed), trimmed)

parseVersion(version) == ParseTrimmedVersion(Trim(version))

\* parseVersionRange after the regular expression has run on the trimmed text
RangeOfMatch(match, trimmed) ==
    IF ~match.match THEN Null
    ELSE LET major == parseInt(OrZero(match.majorStr))
             minor == parseInt(OrZero(match.minorStr))
             patch == parseInt(OrZero(match.patchStr))
         IN  IF isNaN(major) \/ isNaN(minor) \/ isNaN(patch) THEN Null
             ELSE [type    |-> IF match.prefix = <<"^">> THEN "caret"
                               ELSE IF match.prefix = <<"~">> THEN "tilde"
                               ELSE "exact",
                   version |-> [major |-> major, minor |-> minor,
                                patch |-> patch, raw |-> StripPrefix(trimmed)],
                   raw     |-> trimmed]

ParseTrimmedRange(trimmed) == RangeOfMatch(VERSION_REGEX(trimmed), trimmed)

parseVersionRange(range) == ParseTrimmedRange(Trim(range))

getSpecifiedComponentCount(rawRange) ==
    LET count == SplitCount(StripPrefix(rawRange))
    IN  IF count <= 1 THEN 1 ELSE IF count = 2 THEN 2 ELSE 3

-----------------------------------------------------------------------------
(* Matcher *)

\* a plausible slip: caret as "same major, not below the base", for every major
CaretSatisfies_SameMajorOnly(clientVersion, range) ==
    /\ clientVersion.major = range.version.major
    /\ \/ clientVersion.minor > range.version.minor
       \/ /\ clientVersion.minor = range.version.minor
          /\ clientVersion.patch >= range.version.patch

\* a plausible slip: the patch floor applied whatever the client's minor is
CaretSatisfies_PatchFloorAlways(clientVersion, range) ==
    LET cMajor == clientVersion.major
        cMinor == clientVersion.minor
        cPatch == clientVersion.patch
        rMajor == range.version.major
        rMinor == range.version.minor
        rPatch == range.version.patch
    IN  IF cMajor # rMajor THEN FALSE
        ELSE IF rMajor > 0
             THEN IF cMinor < rMinor THEN FALSE
                  ELSE IF cPatch < rPatch THEN FALSE
                  ELSE TRUE
        ELSE IF rMinor > 0 THEN cMinor = rMinor /\ cPatch >= rPatch
        ELSE LET componentCount == getSpecifiedComponentCount(range.raw)
             IN  IF componentCount = 1 THEN TRUE
                 ELSE IF componentCount = 2 THEN cMinor = 0
                 ELSE cMinor = 0 /\ cPatch = rPatch

\* case 'caret' of versionSatisfies
CaretSatisfies(clientVersion, range) ==
    LET cMajor == clientVersion.major
        cMinor == clientVersion.minor
        cPatch == clientVersion.patch
        rMajor == range.version.major
        rMinor == range.version.minor
        rPatch == range.version.patch
    IN  IF cMajor # rMajor THEN FALSE
        ELSE IF rMajor > 0
             THEN IF cMinor < rMinor THEN FALSE
                  ELSE IF cMinor = rMinor /\ cPatch < rPatch THEN FALSE
                  ELSE TRUE
        ELSE IF rMinor > 0 THEN cMinor = rMinor /\ cPatch >= rPatch
        ELSE LET componentCount == getSpecifiedComponentCount(range.raw)
             IN  IF componentCount = 1 THEN TRUE
                 ELSE IF componentCount = 2 THEN cMinor = 0
                 ELSE cMinor = 0 /\ cPatch = rPatch

\* a plausible slip: tilde that lets the minor float above the base
TildeSatisfies_MinorFloats(clientVersion, range) ==
    IF clientVersion.major # range.version.major
       \/ clientVersion.minor < range.version.minor
    THEN FALSE
    ELSE clientVersion.minor > range.version.minor
         \/ clientVersion.patch >= range.version.patch

\* case 'tilde' of versionSatisfies
TildeSatisfies(clientVersion, range) ==
    IF clientVersion.major # range.version.major
       \/ clientVersion.minor # range.version.minor
    THEN FALSE
    ELSE clientVersion.patch >= range.version.patch

\* case 'exact' of versionSatisfies
ExactSatisfies(clientVersion, range) ==
    /\ clientVersion.major = range.version.major
    /\ clientVersion.minor = range.version.minor
    /\ clientVersion.patch = range.version.patch

versionSatisfies(clientVersion, range) ==
    CASE range.type = "caret" -> CaretSatisfies(clientVersion, range)
      [] range.type = "tilde" -> TildeSatisfies(clientVersion, range)
      [] range.type = "exact" -> ExactSatisfies(clientVersion, range)

compareVersions(a, b) ==
    IF a.major # b.major THEN (IF a.major > b.major THEN 1 ELSE -1)
    ELSE IF a.minor # b.minor THEN (IF a.minor > b.minor THEN 1 ELSE -1)
    ELSE IF a.patch # b.patch THEN (IF a.patch > b.patch THEN 1 ELSE -1)
    ELSE 0

-----------------------------------------------------------------------------
(* Handler compiler *)

\* an optional value: absent, or present with a value
None == {}

Some(v) == {v}

The(m) == CHOOSE v \in m : TRUE

VersioningError(code, message, statusCode, requestedVersion, availableVersions) ==
    [code              |-> code,
     message           |-> message,
     statusCode        |-> statusCode,
     requestedVersion  |-> requestedVersion,
     availableVersions |-> availableVersions]

\* a message: its fixed text and the text interpolated into it, if any
Message(fixed, arg) == [fixed |-> fixed, arg |-> arg]

createInvalidHandlerError(key, reason) ==
    VersioningError("INVALID_HANDLER",
                    Message("Invalid handler for version", Some(<<key, reason>>)),
                    500, None, None)

createInvalidConfigurationError(reason) ==
    VersioningError("INVALID_CONFIGURATION",
                    Message("Invalid configuration", Some(reason)),
                    500, None, None)

calculatePriority(handler) ==
    LET range        == handler.range
        major        == range.version.major
        minor        == range.version.minor
        patch        == range.version.patch
        versionValue == major * 1000000 + minor * 1000 + patch
    IN  CASE range.type = "exact" -> 1000000000 + versionValue
          [] range.type = "tilde" -> 500000000 + versionValue
          [] range.type = "caret" -> versionValue

\* a property key that is an array index: canonical decimal text below 2^32 - 1
\* (every canonical decimal of up to nine digits is; longer keys are not drawn)
IsArrayIndex(key) ==
    /\ key # <<>>
    /\ \A i \in 1..Len(key) : IsDigit(key[i])
    /\ Len(key) = 1 \/ Head(key) # "0"
    /\ Len(key) <= 9

\* the entries of s whose key is (is not) an array index, in the order of s
RECURSIVE SelectEntries(_, _)
SelectEntries(s, wantIndex) ==
    IF s = <<>> THEN <<>>
    ELSE IF IsArrayIndex(Head(s).key) = wantIndex
         THEN <<Head(s)>> \o SelectEntries(Tail(s), wantIndex)
         ELSE SelectEntries(Tail(s), wantIndex)

\* ascending numeric order of array-index keys
RECURSIVE SortIndexEntries(_)
SortIndexEntries(s) ==
    IF s = <<>> THEN <<>>
    ELSE LET least == CHOOSE i \in 1..Len(s) :
                          \A j \in 1..Len(s) :
                              DigitsValue(s[i].key, 0) <= DigitsValue(s[j].key, 0)
         IN  <<s[least]>>
             \o SortIndexEntries(SubSeq(s, 1, least - 1) \o SubSeq(s, least + 1, Len(s)))

\* Object.entries(handlers): array-index keys first in ascending order, then
\* the other keys in insertion order
ObjectEntries(handlers) ==
    SortIndexEntries(SelectEntries(handlers, TRUE)) \o SelectEntries(handlers, FALSE)

\* compiled.sort((a, b) => b.priority - a.priority): stable, highest first
RECURSIVE InsertByPriority(_, _)
InsertByPriority(sorted, h) ==
    IF sorted = <<>> THEN <<h>>
    ELSE IF Head(sorted).priority < h.priority THEN <<h>> \o sorted
    ELSE <<Head(sorted)>> \o InsertByPriority(Tail(sorted), h)

RECURSIVE SortByPriority(_, _)
SortByPriority(rest, sorted) ==
    IF rest = <<>> THEN sorted
    ELSE SortByPriority(Tail(rest), InsertByPriority(sorted, Head(rest)))

\* the compiled handler of an entry whose key parsed, with its priority
CompiledHandler(entry, range) ==
    [key      |-> entry.key,
     range    |-> range,
     callable |-> entry.callable,
     priority |-> calculatePriority([range |-> range])]

\* the loop of compileHandlers over the remaining entries; CompileEntry is its
\* body from the point where the key of the first entry has been parsed
RECURSIVE CompileLoop(_, _, _)
\* a plausible slip: a key that does not parse is skipped even when validating
CompileEntry_SkipUnparsed(entries, validate, compiled, range) ==
    IF range = Null
    THEN CompileLoop(Tail(entries), validate, compiled)
    ELSE CompileLoop(Tail(entries), validate,
                     Append(compiled, CompiledHandler(Head(entries), range)))

CompileEntry(entries, validate, compiled, range) ==
    IF range = Null
    THEN IF validate
         THEN [thrown   |-> Some(createInvalidHandlerError(Head(entries).key,
                                    "invalid version format. Expected: \"1.0.0\", \"^1.0\", \"~1.2\", etc.")),
               compiled |-> <<>>]
         ELSE CompileLoop(Tail(entries), validate, compiled)
    ELSE CompileLoop(Tail(entries), validate,
                     Append(compiled, CompiledHandler(Head(entries), range)))

CompileLoop(entries, validate, compiled) ==
    IF entries = <<>> THEN [thrown |-> None, compiled |-> compiled]
    ELSE IF validate /\ ~Head(entries).callable
         THEN [thrown   |-> Some(createInvalidHandlerError(Head(entries).key,
                                    "handler must be a function")),
               compiled |-> <<>>]
         ELSE CompileEntry(entries, validate, compiled,
                           parseVersionRange(Head(entries).key))

\* a plausible slip: the compiled handlers left in the order of the entries
SortCompiled_InsertionOrder(looped) == looped

\* compiled.sort(...) when the loop has not thrown
SortCompiled(looped) ==
    IF looped.thrown # None THEN looped
    ELSE [thrown |-> None, compiled |-> SortByPriority(looped.compiled, <<>>)]

\* the compiled handlers sorted by priority, or the error thrown
compileHandlers(handlers, validate) ==
    SortCompiled(CompileLoop(ObjectEntries(handlers), validate, <<>>))

\* the loop of findMatchingHandler from index i on: the first handler the
\* client version satisfies, Null (undefined) when there is none
RECURSIVE FindMatchingFrom(_, _, _)
FindMatchingFrom(clientVersion, compiledHandlers, i) ==
    IF i > Len(compiledHandlers) THEN Null
    ELSE IF versionSatisfies(clientVersion, compiledHandlers[i].range)
    THEN compiledHandlers[i]
    ELSE FindMatchingFrom(clientVersion, compiledHandlers, i + 1)

findMatchingHandler(clientVersion, compiledHandlers) ==
    FindMatchingFrom(clientVersion, compiledHandlers, 1)

\* the loop of findLatestHandler: latest so far, over the handlers from i on
RECURSIVE LatestFrom(_, _, _)
LatestFrom(compiledHandlers, i, latest) ==
    IF i > Len(compiledHandlers) THEN latest
    ELSE LET handler == compiledHandlers[i]
         IN  IF latest = Null
                \/ compareVersions(handler.range.version, latest.range.version) > 0
             THEN LatestFrom(compiledHandlers, i + 1, handler)
             ELSE LatestFrom(compiledHandlers, i + 1, latest)

\* a plausible slip: the first compiled handler (highest priority) taken as latest
findLatestHandler_FirstByPriority(compiledHandlers) ==
    IF Len(compiledHandlers) = 0 THEN Null ELSE compiledHandlers[1]

findLatestHandler(compiledHandlers) ==
    IF Len(compiledHandlers) = 0 THEN Null
    ELSE LatestFrom(compiledHandlers, 1, Null)

\* a plausible slip: only the first key reported
getAvailableVersions_FirstOnly(compiledHandlers) ==
    IF compiledHandlers = <<>> THEN <<>> ELSE <<compiledHandlers[1].key>>

getAvailableVersions(compiledHandlers) ==
    [i \in 1..Len(compiledHandlers) |-> compiledHandlers[i].key]

-----------------------------------------------------------------------------
(* Configuration *)

\* a RegExp object with the source \/v(\d+(?:\.\d+)?(?:\.\d+)?)\/, its g and y
\* flags, and the lastIndex it has when the options are given
Pattern(global, sticky, lastIndex) ==
    [regexp    |-> TRUE,
     source    |-> "/v(digits(.digits)?(.digits)?)/",
     global    |-> global,
     sticky    |-> sticky,
     lastIndex |-> lastIndex]

\* the default path pattern /\/v(\d+(?:\.\d+)?(?:\.\d+)?)\//
VersionSegmentPattern == Pattern(FALSE, FALSE, 0)

DEFAULT_CONFIG ==
    [extraction |->
        [sources |-> <<"header", "query">>,
         header  |-> [name |-> "accept-version"],
         query   |-> [name |-> "v"],
         path    |-> [pattern |-> VersionSegmentPattern],
         custom  |-> None],
     errorResponse |->
        [missingVersionStatus    |-> 422,
         versionNotFoundStatus   |-> 422,
         missingVersionMessage   |-> "API version is required",
         versionNotFoundMessage  |-> "No handler found for the requested API version",
         includeRequestedVersion |-> TRUE,
         onError                 |-> None],
     fallbackStrategy  |-> "default",
     defaultHandler    |-> None,
     validateHandlers  |-> TRUE,
     attachVersionInfo |-> TRUE,
     requireVersion    |-> TRUE]

\* options with nothing given: every key absent
EmptyErrorResponse ==
    [missingVersionStatus    |-> None,
     versionNotFoundStatus   |-> None,
     missingVersionMessage   |-> None,
     versionNotFoundMessage  |-> None,
     includeRequestedVersion |-> None,
     onError                 |-> None]

EmptyExtraction ==
    [sources |-> None,
     header  |-> None,
     query   |-> None,
     path    |-> None,
     custom  |-> None]

EmptyOptions ==
    [extraction        |-> None,
     errorResponse     |-> None,
     fallbackStrategy  |-> None,
     defaultHandler    |-> None,
     validateHandlers  |-> None,
     attachVersionInfo |-> None,
     requireVersion    |-> None]

\* m?.field
Chain(m, field) == IF m = None THEN None ELSE The(m)[field]

\* m ?? default
Coalesce(m, default) == IF m = None THEN default ELSE The(m)

\* !Number.isInteger(status) || status < 100 || status > 599
InvalidStatus(status) == status \notin Int \/ status < 100 \/ status > 599

validSources == {"header", "query", "path", "custom"}

\* resolveConfig throwing createInvalidConfigurationError(reason)
ThrowInvalidConfiguration(reason) ==
    [thrown |-> Some(createInvalidConfigurationError(reason)), config |-> Null]

\* the first source of the list that is not a valid source, if any
RECURSIVE FirstInvalidSource(_)
FirstInvalidSource(sources) ==
    IF sources = <<>> THEN None
    ELSE IF Head(sources) \notin validSources THEN Some(Head(sources))
    ELSE FirstInvalidSource(Tail(sources))

\* sources.includes(source)
Includes(sources, source) == \E i \in 1..Len(sources) : sources[i] = source

\* the merge at the end of resolveConfig
MergeConfig(options) ==
    LET ex == options.extraction
        er == options.errorResponse
        D  == DEFAULT_CONFIG
    IN  [extraction |->
            [sources |-> Coalesce(Chain(ex, "sources"), D.extraction.sources),
             header  |-> [name |-> Coalesce(Chain(Chain(ex, "header"), "name"),
                                            D.extraction.header.name)],
             query   |-> [name |-> Coalesce(Chain(Chain(ex, "query"), "name"),
                                            D.extraction.query.name)],
             path    |-> [pattern |-> Coalesce(Chain(Chain(ex, "path"), "pattern"),
                                               D.extraction.path.pattern)],
             custom  |-> Chain(ex, "custom")],
         errorResponse |->
            [missingVersionStatus |->
                Coalesce(Chain(er, "missingVersionStatus"),
                         D.errorResponse.missingVersionStatus),
             versionNotFoundStatus |->
                Coalesce(Chain(er, "versionNotFoundStatus"),
                         D.errorResponse.versionNotFoundStatus),
             missingVersionMessage |->
                Coalesce(Chain(er, "missingVersionMessage"),
                         D.errorResponse.missingVersionMessage),
             versionNotFoundMessage |->
                Coalesce(Chain(er, "versionNotFoundMessage"),
                         D.errorResponse.versionNotFoundMessage),
             includeRequestedVersion |->
                Coalesce(Chain(er, "includeRequestedVersion"),
                         D.errorResponse.includeRequestedVersion),
             onError |-> Chain(er, "onError")],
         fallbackStrategy  |-> Coalesce(options.fallbackStrategy, D.fallbackStrategy),
         defaultHandler    |-> options.defaultHandler,
         validateHandlers  |-> Coalesce(options.validateHandlers, D.validateHandlers),
         attachVersionInfo |-> Coalesce(options.attachVersionInfo, D.attachVersionInfo),
         requireVersion    |-> Coalesce(options.requireVersion, D.requireVersion)]

\* the resolved configuration, or the error thrown
resolveConfig(options) ==
    IF options = Null THEN [thrown |-> None, config |-> DEFAULT_CONFIG]
    ELSE LET ex             == options.extraction
             sources        == Chain(ex, "sources")
             pattern        == Chain(Chain(ex, "path"), "pattern")
             missingStatus  == Chain(options.errorResponse, "missingVersionStatus")
             notFoundStatus == Chain(options.errorResponse, "versionNotFoundStatus")
         IN  IF sources # None /\ FirstInvalidSource(The(sources)) # None
             THEN ThrowInvalidConfiguration(
                      "Invalid version source: '"
                      \o The(FirstInvalidSource(The(sources)))
                      \o "'. Valid sources: header, query, path, custom")
             ELSE IF sources # None /\ Includes(The(sources), "custom")
                     /\ Chain(ex, "custom") = None
             THEN ThrowInvalidConfiguration(
                      "Custom extractor function is required when 'custom' source is used")
             ELSE IF pattern # None /\ ~The(pattern).regexp
             THEN ThrowInvalidConfiguration("Path pattern must be a RegExp instance")
             ELSE IF missingStatus # None /\ InvalidStatus(The(missingStatus))
             THEN ThrowInvalidConfiguration(
                      "missingVersionStatus must be a valid HTTP status code (100-599)")
             ELSE IF notFoundStatus # None /\ InvalidStatus(The(notFoundStatus))
             THEN ThrowInvalidConfiguration(
                      "versionNotFoundStatus must be a valid HTTP status code (100-599)")
             ELSE [thrown |-> None, config |-> MergeConfig(options)]

-----------------------------------------------------------------------------
(* Version extractor *)

\* values a request slot can hold
JsUndefined == [type |-> "undefined"]

JsString(s) == [type |-> "string", value |-> s]

JsArray(a) == [type |-> "array", value |-> a]

\* obj[name]
Lookup(obj, name) == IF name \in DOMAIN obj THEN obj[name] ELSE JsUndefined

\* String.prototype.toLowerCase on the header names in use
toLowerCase(name) ==
    CASE name = "Accept-Version" -> "accept-version"
      [] name = "X-API-Version"  -> "x-api-version"
      [] OTHER                   -> name

\* a string | undefined result is truthy when it is a non-empty string
Truthy(m) == m # None /\ The(m) # <<>>

extractFromHeader(r, headerName) ==
    LET value == Lookup(r.headers, toLowerCase(headerName))
    IN  IF value.type = "string" /\ Len(Trim(value.value)) > 0
        THEN Some(Trim(value.value))
        ELSE IF value.type = "array" /\ Len(value.value) > 0 /\ value.value[1] # <<>>
        THEN Some(Trim(value.value[1]))
        ELSE None

extractFromQuery(r, paramName) ==
    LET value == Lookup(r.query, paramName)
    IN  IF value.type = "string" /\ Len(Trim(value.value)) > 0
        THEN Some(Trim(value.value))
        ELSE None

extractFromRequest(r) ==
    IF r.version.type = "string" /\ Len(Trim(r.version.value)) > 0
    THEN Some(Trim(r.version.value))
    ELSE None

\* pattern.exec(path) tried at index i for the default pattern: the index
\* after the match, 0 when the pattern does not match there (the digit groups
\* are greedy and what follows them must be "/", so no backtracking succeeds
\* where the greedy match fails)
PathMatchEnd(path, i, p) ==
    IF p <= Len(path) /\ path[p] = "/" THEN p + 1 ELSE 0

PathMatchAt(path, i) ==
    IF i + 2 <= Len(path) /\ path[i] = "/" /\ path[i + 1] = "v"
       /\ SkipDigits(path, i + 2) > i + 2
    THEN PathMatchEnd(path, i,
             OptionalGroupEnd(path, OptionalGroupEnd(path, SkipDigits(path, i + 2))))
    ELSE 0

\* the index of the leftmost match that starts at index i or later, 0 when
\* there is none
RECURSIVE PathSearchFrom(_, _)
PathSearchFrom(path, i) ==
    IF i > Len(path) THEN 0
    ELSE IF PathMatchAt(path, i) > 0 THEN i
    ELSE PathSearchFrom(path, i + 1)

\* where pattern.exec(path) finds its match when it starts at the (0-based)
\* position from: a sticky pattern matches there or nowhere, the others
\* search forward; 0 when there is no match
PathMatchStart(pattern, from, path) ==
    IF from > Len(path) THEN 0
    ELSE IF pattern.sticky
    THEN (IF PathMatchAt(path, from + 1) > 0 THEN from + 1 ELSE 0)
    ELSE PathSearchFrom(path, from + 1)

\* pattern.exec(path) from the point where the match was looked for: match is
\* match?.[1], the first capture group; a pattern with the g or y flag moves
\* its lastIndex to the end of the match, or to 0 when there is none
ExecResult(pattern, lastIndex, path, start) ==
    IF start = 0
    THEN [match     |-> None,
          lastIndex |-> IF pattern.global \/ pattern.sticky THEN 0 ELSE lastIndex]
    ELSE [match     |-> Some(SubSeq(path, start + 2, PathMatchAt(path, start) - 2)),
          lastIndex |-> IF pattern.global \/ pattern.sticky
                        THEN PathMatchAt(path, start) - 1 ELSE lastIndex]

\* pattern.exec(path) when the pattern's lastIndex is lastIndex: a pattern
\* without the g and y flags starts at 0 and leaves lastIndex alone
RegExpExec(pattern, lastIndex, path) ==
    ExecResult(pattern, lastIndex, path,
               PathMatchStart(pattern,
                              IF pattern.global \/ pattern.sticky THEN lastIndex ELSE 0,
                              path))

\* what a strategy yields and the pattern's lastIndex when it has run
Yielded(value, lastIndex) == [value |-> value, lastIndex |-> lastIndex]

\* a plausible slip: the position is reset before exec only
extractFromPath_NoResetAfter(r, pattern, lastIndex) ==
    LET path == IF r.path # <<>> THEN r.path ELSE r.url
        isStatefulPattern == pattern.global \/ pattern.sticky
        exec == RegExpExec(pattern, IF isStatefulPattern THEN 0 ELSE lastIndex, path)
    IN  Yielded(IF Truthy(exec.match) THEN Some(Trim(The(exec.match))) ELSE None,
                exec.lastIndex)

\* a plausible slip: the position is reset after exec only
extractFromPath_NoResetBefore(r, pattern, lastIndex) ==
    LET path == IF r.path # <<>> THEN r.path ELSE r.url
        isStatefulPattern == pattern.global \/ pattern.sticky
        exec == RegExpExec(pattern, lastIndex, path)
    IN  Yielded(IF Truthy(exec.match) THEN Some(Trim(The(exec.match))) ELSE None,
                IF isStatefulPattern THEN 0 ELSE exec.lastIndex)

\* extractFromPath when the pattern's lastIndex is lastIndex
extractFromPath(r, pattern, lastIndex) ==
    LET path == IF r.path # <<>> THEN r.path ELSE r.url
        isStatefulPattern == pattern.global \/ pattern.sticky
        exec == RegExpExec(pattern, IF isStatefulPattern THEN 0 ELSE lastIndex, path)
    IN  Yielded(IF Truthy(exec.match) THEN Some(Trim(The(exec.match))) ELSE None,
                IF isStatefulPattern THEN 0 ELSE exec.lastIndex)

\* custom?.(req): what the configured function returns for this request
CallCustom(custom, r) ==
    IF custom = None THEN None
    ELSE IF r.custom.type = "string" THEN Some(r.custom.value)
    ELSE None

\* the switch on the source inside the loop of the extractor; only the path
\* strategy touches the pattern
ExtractFromSource(config, r, source, lastIndex) ==
    CASE source = "header" ->
            Yielded(extractFromHeader(r, config.extraction.header.name), lastIndex)
      [] source = "query" ->
            Yielded(extractFromQuery(r, config.extraction.query.name), lastIndex)
      [] source = "path" ->
            extractFromPath(r, config.extraction.path.pattern, lastIndex)
      [] source = "custom" ->
            Yielded(CallCustom(config.extraction.custom, r), lastIndex)

\* what the extractor returns: result is an extraction result or Null
\* (undefined); consulted lists the sources whose strategy was run, in order;
\* lastIndex is the pattern's lastIndex when the extractor returns
Extracted(result, consulted, lastIndex) ==
    [result |-> result, consulted |-> consulted, lastIndex |-> lastIndex]

\* a plausible slip: the last source that yields a value wins
RECURSIVE ExtractFromSources_LastWins(_, _, _, _, _)
ExtractFromSources_LastWins(config, r, i, consulted, lastIndex) ==
    IF i > Len(config.extraction.sources) THEN Extracted(Null, consulted, lastIndex)
    ELSE LET rest == ExtractFromSources_LastWins(config, r, i + 1,
                         Append(consulted, config.extraction.sources[i]), lastIndex)
             this == ExtractFromSource(config, r, config.extraction.sources[i],
                                       lastIndex).value
         IN  IF rest.result # Null THEN rest
             ELSE IF Truthy(this)
             THEN Extracted([version |-> The(this),
                             source  |-> config.extraction.sources[i]],
                            rest.consulted, rest.lastIndex)
             ELSE rest

\* the loop of the extractor over the configured sources from index i on;
\* TrySource is its body from the point where the strategy of source i has run
RECURSIVE ExtractFromSources(_, _, _, _, _)
TrySource(config, r, i, consulted, yielded) ==
    IF Truthy(yielded.value)
    THEN Extracted([version |-> The(yielded.value),
                    source  |-> config.extraction.sources[i]],
                   consulted, yielded.lastIndex)
    ELSE ExtractFromSources(config, r, i + 1, consulted, yielded.lastIndex)

ExtractFromSources(config, r, i, consulted, lastIndex) ==
    IF i > Len(config.extraction.sources) THEN Extracted(Null, consulted, lastIndex)
    ELSE TrySource(config, r, i, Append(consulted, config.extraction.sources[i]),
                   ExtractFromSource(config, r, config.extraction.sources[i],
                                     lastIndex))

\* a plausible slip: the configured sources are tried before the value
\* already set on the request
extractVersion_SourcesFirst(config, r, lastIndex) ==
    LET found == ExtractFromSources(config, r, 1, <<>>, lastIndex)
    IN  IF found.result # Null THEN found
        ELSE IF Truthy(extractFromRequest(r))
        THEN Extracted([version |-> The(extractFromRequest(r)), source |-> "custom"],
                       found.consulted, found.lastIndex)
        ELSE found

\* the extractor createVersionExtractor(config) returns, applied to a request
\* when the path pattern's lastIndex is lastIndex
extractVersion(config, r, lastIndex) ==
    LET requestVersion == extractFromRequest(r)
    IN  IF Truthy(requestVersion)
        THEN Extracted([version |-> The(requestVersion), source |-> "custom"], <<>>,
                       lastIndex)
        ELSE ExtractFromSources(config, r, 1, <<>>, lastIndex)

-----------------------------------------------------------------------------
(* Dispatch middleware *)

\* message is the optional second argument: 'API version is required' when
\* the caller gives none
createMissingVersionError(statusCode, message) ==
    VersioningError("MISSING_VERSION",
                    Message(Coalesce(message, "API version is required"), None),
                    statusCode, None, None)

createVersionNotFoundError(requestedVersion, availableVersions, statusCode) ==
    VersioningError("VERSION_NOT_FOUND",
                    Message("No handler found for API version", Some(requestedVersion)),
                    statusCode, Some(requestedVersion), Some(availableVersions))

createInvalidVersionFormatError(version) ==
    VersioningError("INVALID_VERSION_FORMAT",
                    Message("Invalid version format", Some(version)),
                    400, Some(version), None)

\* the text 'unknown'
Unknown == <<"u", "n", "k", "n", "o", "w", "n">>

\* what handling a request has done so far
NoEffects ==
    [received  |-> Null,    \* the request as the request function received it
     extracted |-> Null,    \* what the extractor returned for it
     consulted |-> <<>>,    \* extraction strategies run, in order
     invoked   |-> <<>>,    \* handlers invoked, in order
     seen      |-> <<>>,    \* req.versionInfo as each invoked handler found it
     outcomes  |-> <<>>,    \* what each invoked handler did
     errors    |-> <<>>,    \* versioning errors handed to sendErrorResponse
     hookCalls |-> <<>>,    \* errors offered to the onError hook
     responses |-> <<>>,    \* payloads written with res.status(..).json(..)
     nextCalls |-> <<>>,    \* errors passed to next
     escaped   |-> <<>>,    \* errors thrown out of the request function
     promises  |-> <<>>,    \* rejected promises whose reactions have not run yet
     unhandled |-> <<>>]    \* rejections that no reaction observed

\* what a handler does when it is called: it returns, it throws HandlerError,
\* or it returns a promise that rejects with HandlerError
Behaviours == {"returns", "throws", "rejects"}

HandlerError == "HandlerError"

\* the request, the effects of handling it, what a handler called while
\* handling it does, and the path pattern's lastIndex
World(r, e, b, lastIndex) ==
    [req |-> r, res |-> e, behaviour |-> b, lastIndex |-> lastIndex]

\* a rejected promise and whether a reaction (.catch) is attached to it
Rejected(error, observed) == [error |-> error, observed |-> observed]

\* the handler function was entered: it finds req.versionInfo as it is now
Entered(w, entry) ==
    [w EXCEPT !.res.invoked  = Append(@, entry),
              !.res.seen     = Append(@, w.req.versionInfo),
              !.res.outcomes = Append(@, w.behaviour)]

\* a plausible slip: the answer of the hook is ignored
sendErrorResponse_IgnoreAnswer(error, w, config) ==
    LET hook     == config.errorResponse.onError
        offered  == IF hook # None
                    THEN [w EXCEPT !.res.hookCalls = Append(@, error),
                                   !.res.errors = Append(@, error)]
                    ELSE [w EXCEPT !.res.errors = Append(@, error)]
    IN  [offered EXCEPT !.res.responses =
            Append(@, [status |-> error.statusCode,
                       body   |-> [error             |-> error.code,
                                   message           |-> error.message,
                                   requestedVersion  |-> error.requestedVersion,
                                   availableVersions |-> error.availableVersions]])]

sendErrorResponse(error, w, config) ==
    LET hook     == config.errorResponse.onError
        offered  == IF hook # None
                    THEN [w EXCEPT !.res.hookCalls = Append(@, error),
                                   !.res.errors = Append(@, error)]
                    ELSE [w EXCEPT !.res.errors = Append(@, error)]
        handled  == hook # None /\ The(hook) = "returnsTrue"
        response == [error   |-> error.code,
                     message |-> error.message,
                     requestedVersion |->
                        IF config.errorResponse.includeRequestedVersion
                           /\ Truthy(error.requestedVersion)
                        THEN error.requestedVersion ELSE None,
                     availableVersions |->
                        IF error.availableVersions # None
                           /\ Len(The(error.availableVersions)) > 0
                        THEN error.availableVersions ELSE None]
    IN  IF handled THEN offered
        ELSE [offered EXCEPT !.res.responses =
                 Append(@, [status |-> error.statusCode, body |-> response])]

getVersionNotFoundMessage(version, config) ==
    Message(config.errorResponse.versionNotFoundMessage, None)

\* handler.handler(req, res, next) inside try/catch: calling a value that is
\* no function throws a TypeError, which the catch passes to next
\* a plausible slip: the promise a handler returns is left without a reaction
executeHandler_NoCatch(handler, w) ==
    IF ~handler.callable
    THEN [w EXCEPT !.res.nextCalls = Append(@, "TypeError")]
    ELSE CASE w.behaviour = "returns" ->
                 Entered(w, [kind |-> "route", key |-> handler.key])
           [] w.behaviour = "throws" ->
                 [Entered(w, [kind |-> "route", key |-> handler.key])
                     EXCEPT !.res.nextCalls = Append(@, HandlerError)]
           [] w.behaviour = "rejects" ->
                 [Entered(w, [kind |-> "route", key |-> handler.key])
                     EXCEPT !.res.promises = Append(@, Rejected(HandlerError, FALSE))]

executeHandler(handler, w) ==
    IF ~handler.callable
    THEN [w EXCEPT !.res.nextCalls = Append(@, "TypeError")]
    ELSE CASE w.behaviour = "returns" ->
                 Entered(w, [kind |-> "route", key |-> handler.key])
           [] w.behaviour = "throws" ->
                 \* catch (error) { next(error) }
                 [Entered(w, [kind |-> "route", key |-> handler.key])
                     EXCEPT !.res.nextCalls = Append(@, HandlerError)]
           [] w.behaviour = "rejects" ->
                 \* result instanceof Promise: result.catch(error => next(error))
                 [Entered(w, [kind |-> "route", key |-> handler.key])
                     EXCEPT !.res.promises = Append(@, Rejected(HandlerError, TRUE))]

\* void Promise.resolve(config.defaultHandler(req, res, next)): a throw leaves
\* the request function, a returned promise gets no reaction
callDefaultHandler(w) ==
    CASE w.behaviour = "returns" -> Entered(w, [kind |-> "default"])
      [] w.behaviour = "throws" ->
            [Entered(w, [kind |-> "default"])
                EXCEPT !.res.escaped = Append(@, HandlerError)]
      [] w.behaviour = "rejects" ->
            [Entered(w, [kind |-> "default"])
                EXCEPT !.res.promises = Append(@, Rejected(HandlerError, FALSE))]

VersionInfo(requested, matched, source) ==
    [requested |-> requested, matched |-> matched, source |-> source]

\* the text 'default'
DefaultText == <<"d", "e", "f", "a", "u", "l", "t">>

\* a plausible slip: the fallback attaches version info although no version
\* was requested
FallbackToHandler_AttachUnknown(latestHandler, requestedVersion, config, availableVersions, w) ==
    IF latestHandler # Null
    THEN executeHandler(latestHandler,
             IF config.attachVersionInfo
             THEN [w EXCEPT !.req.versionInfo =
                      Some(VersionInfo(Coalesce(requestedVersion, Unknown),
                                       latestHandler.key, "header"))]
             ELSE w)
    ELSE sendErrorResponse(
             createVersionNotFoundError(Coalesce(requestedVersion, Unknown),
                 availableVersions, config.errorResponse.versionNotFoundStatus),
             w, config)

\* the 'latest' branch of handleFallback (also the tail of its 'default'
\* branch), from the point where findLatestHandler has returned
FallbackToHandler(latestHandler, requestedVersion, config, availableVersions, w) ==
    IF latestHandler # Null
    THEN executeHandler(latestHandler,
             IF config.attachVersionInfo /\ Truthy(requestedVersion)
             THEN [w EXCEPT !.req.versionInfo =
                      Some(VersionInfo(The(requestedVersion),
                                       latestHandler.key, "header"))]
             ELSE w)
    ELSE sendErrorResponse(
             createVersionNotFoundError(Coalesce(requestedVersion, Unknown),
                 availableVersions, config.errorResponse.versionNotFoundStatus),
             w, config)

FallbackLatest(requestedVersion, compiledHandlers, config, availableVersions, w) ==
    FallbackToHandler(findLatestHandler(compiledHandlers), requestedVersion, config,
                      availableVersions, w)

\* a plausible slip: strategy 'default' without a default handler reports
\* VERSION_NOT_FOUND instead of falling back to the latest route
handleFallback_NoLatest(requestedVersion, compiledHandlers, config, availableVersions, w) ==
    CASE config.fallbackStrategy = "latest" ->
            FallbackLatest(requestedVersion, compiledHandlers, config,
                           availableVersions, w)
      [] config.fallbackStrategy = "default" /\ config.defaultHandler # None ->
            callDefaultHandler(
                IF config.attachVersionInfo /\ Truthy(requestedVersion)
                THEN [w EXCEPT !.req.versionInfo =
                         Some(VersionInfo(The(requestedVersion),
                                          DefaultText, "header"))]
                ELSE w)
      [] config.fallbackStrategy \in {"none", "default"} ->
            sendErrorResponse(
                [createVersionNotFoundError(
                     Coalesce(requestedVersion, Unknown), availableVersions,
                     config.errorResponse.versionNotFoundStatus)
                    EXCEPT !.message = getVersionNotFoundMessage(
                                           Coalesce(requestedVersion, Unknown), config)],
                w, config)
      [] OTHER -> w

\* requestedVersion is absent when no version was extracted
handleFallback(requestedVersion, compiledHandlers, config, availableVersions, w) ==
    CASE config.fallbackStrategy = "none" ->
            LET error == createVersionNotFoundError(
                             Coalesce(requestedVersion, Unknown), availableVersions,
                             config.errorResponse.versionNotFoundStatus)
                withMessage == [error EXCEPT !.message =
                                   getVersionNotFoundMessage(
                                       Coalesce(requestedVersion, Unknown), config)]
            IN  sendErrorResponse(withMessage, w, config)
      [] config.fallbackStrategy = "latest" ->
            FallbackLatest(requestedVersion, compiledHandlers, config,
                           availableVersions, w)
      [] config.fallbackStrategy = "default" ->
            IF config.defaultHandler # None
            THEN callDefaultHandler(
                     IF config.attachVersionInfo /\ Truthy(requestedVersion)
                     THEN [w EXCEPT !.req.versionInfo =
                              Some(VersionInfo(The(requestedVersion),
                                               DefaultText, "header"))]
                     ELSE w)
            ELSE FallbackLatest(requestedVersion, compiledHandlers, config,
                                availableVersions, w)
      [] OTHER -> w

\* a plausible slip: the version info is attached after the handler has run
DispatchMatched_AttachAfter(m, w, extraction, matchedHandler) ==
    IF matchedHandler # Null
    THEN IF m.config.attachVersionInfo
         THEN [executeHandler(matchedHandler, w) EXCEPT !.req.versionInfo =
                  Some(VersionInfo(extraction.version, matchedHandler.key,
                                   extraction.source))]
         ELSE executeHandler(matchedHandler, w)
    ELSE handleFallback(Some(extraction.version), m.compiledHandlers, m.config,
                        m.availableVersions, w)

\* the request function from the point where findMatchingHandler has returned
DispatchMatched(m, w, extraction, matchedHandler) ==
    IF matchedHandler # Null
    THEN executeHandler(matchedHandler,
             IF m.config.attachVersionInfo
             THEN [w EXCEPT !.req.versionInfo =
                      Some(VersionInfo(extraction.version, matchedHandler.key,
                                       extraction.source))]
             ELSE w)
    ELSE handleFallback(Some(extraction.version), m.compiledHandlers, m.config,
                        m.availableVersions, w)

\* the request function from the point where parseVersion has returned
DispatchParsed(m, w, extraction, clientVersion) ==
    IF clientVersion = Null
    THEN sendErrorResponse(createInvalidVersionFormatError(extraction.version),
                           w, m.config)
    ELSE DispatchMatched(m, w, extraction,
                         findMatchingHandler(clientVersion, m.compiledHandlers))

\* a plausible slip: a missing version is an error whatever requireVersion says
DispatchExtracted_AlwaysRequire(m, w, extraction) ==
    IF extraction = Null
    THEN sendErrorResponse(
             createMissingVersionError(m.config.errorResponse.missingVersionStatus, None),
             w, m.config)
    ELSE DispatchParsed(m, w, extraction, parseVersion(extraction.version))

\* a plausible slip: a missing version goes to the fallback unless the strategy
\* is 'none'
DispatchExtracted_FallbackFirst(m, w, extraction) ==
    IF extraction = Null
    THEN IF ~m.config.requireVersion \/ m.config.fallbackStrategy # "none"
         THEN handleFallback(None, m.compiledHandlers, m.config,
                             m.availableVersions, w)
         ELSE sendErrorResponse(
                  createMissingVersionError(m.config.errorResponse.missingVersionStatus, None),
                  w, m.config)
    ELSE DispatchParsed(m, w, extraction, parseVersion(extraction.version))

\* the request function from the point where the extractor has returned
DispatchExtracted(m, w, extraction) ==
    IF extraction = Null
    THEN IF ~m.config.requireVersion
         THEN handleFallback(None, m.compiledHandlers, m.config,
                             m.availableVersions, w)
         ELSE sendErrorResponse(
                  createMissingVersionError(m.config.errorResponse.missingVersionStatus, None),
                  w, m.config)
    ELSE DispatchParsed(m, w, extraction, parseVersion(extraction.version))

\* the request function from the point where the extractor has returned
\* (found is its result with the strategies it ran)
DispatchFound(m, r, b, found) ==
    DispatchExtracted(m,
                      World(r, [NoEffects EXCEPT !.received = r,
                                                 !.extracted = found.result,
                                                 !.consulted = found.consulted],
                            b, found.lastIndex),
                      found.result)

\* the request function versioningMiddleware returns, applied to request r
\* when the handlers behave as b and the path pattern's lastIndex is lastIndex
handleRequest(m, r, b, lastIndex) ==
    DispatchFound(m, r, b, extractVersion(m.config, r, lastIndex))

\* a plausible slip: an empty compiled list is let through
MiddlewareOfCompiled_NoEmptyCheck(config, compiled) ==
    IF compiled.thrown # None
    THEN [thrown |-> compiled.thrown, middleware |-> Null]
    ELSE [thrown |-> None,
          middleware |->
             [config            |-> config,
              compiledHandlers  |-> compiled.compiled,
              availableVersions |-> getAvailableVersions(compiled.compiled)]]

\* versioningMiddleware from the point where compileHandlers has returned
MiddlewareOfCompiled(config, compiled) ==
    IF compiled.thrown # None
    THEN [thrown |-> compiled.thrown, middleware |-> Null]
    ELSE IF Len(compiled.compiled) = 0
    THEN [thrown |-> Some(createInvalidConfigurationError(
                 "No valid handlers provided. At least one handler is required.")),
          middleware |-> Null]
    ELSE [thrown |-> None,
          middleware |->
             [config            |-> config,
              compiledHandlers  |-> compiled.compiled,
              availableVersions |-> getAvailableVersions(compiled.compiled)]]

\* versioningMiddleware from the point where resolveConfig has returned
MiddlewareOfConfig(handlers, resolved) ==
    IF resolved.thrown # None
    THEN [thrown |-> resolved.thrown, middleware |-> Null]
    ELSE MiddlewareOfCompiled(resolved.config,
             compileHandlers(handlers.entries, resolved.config.validateHandlers))

\* versioningMiddleware(handlers, options): the middleware, or the error thrown
versioningMiddleware(handlers, options) ==
    IF handlers.isArray
    THEN [thrown |-> Some(createInvalidConfigurationError(
                               "'handlers' must be a non-null, non-array object")),
          middleware |-> Null]
    ELSE MiddlewareOfConfig(handlers, resolveConfig(options))

-----------------------------------------------------------------------------
(* Inputs of the parser and of the matcher *)

Dot == <<".">>

\* `${M}.${m}.${p}`, `${M}.${m}` and `${M}`
Canon3(M, m, p) == toString(M) \o Dot \o toString(m) \o Dot \o toString(p)

Canon2(M, m) == toString(M) \o Dot \o toString(m)

Canon1(M) == toString(M)

Components == 0..MaxComponent

CanonRecs3 ==
    {[text |-> Canon3(M, m, p), major |-> M, minor |-> m, patch |-> p] :
        M \in Components, m \in Components, p \in Components}

CanonRecs2 ==
    {[text |-> Canon2(M, m), major |-> M, minor |-> m, patch |-> 0] :
        M \in Components, m \in Components}

CanonRecs1 ==
    {[text |-> Canon1(M), major |-> M, minor |-> 0, patch |-> 0] : M \in Components}

CanonRecs == CanonRecs3 \cup CanonRecs2 \cup CanonRecs1

CanonicalTexts == {r.text : r \in CanonRecs}

\* malformed and borderline texts: padding, a leading sign or range prefix,
\* and up to four dot-separated tokens
Pads == {<<>>, <<" ">>}

Leads == {<<>>, <<"^">>, <<"~">>, <<"-">>}

Tokens == {<<>>, <<"0">>, <<"1">>, <<"1", "2">>, <<"0", "1">>, <<"a">>}

RECURSIVE JoinDots(_)
JoinDots(parts) ==
    IF parts = <<>> THEN <<>>
    ELSE IF Len(parts) = 1 THEN parts[1]
    ELSE parts[1] \o Dot \o JoinDots(Tail(parts))

TokenLists == UNION {[1..n -> Tokens] : n \in 0..4}

OtherTexts ==
    {l \o lead \o JoinDots(parts) \o r :
        l \in Pads, lead \in Leads, parts \in TokenLists, r \in Pads}

\* the texts the specification names
ExampleTexts ==
    { <<>>,
      <<"a", ".", "b", ".", "c">>,
      <<"1", ".", "2", ".", "3", ".", "4">>,
      <<"-", "1", ".", "0", ".", "0">>,
      <<"^", "1", ".", "0", ".", "0">> }

ParseTexts == CanonicalTexts \cup OtherTexts \cup ExampleTexts

\* matcher inputs: every client triple and every range of one to three
\* components over 0..MaxMatchComponent, with each prefix
MatchComponents == 0..MaxMatchComponent

ClientTexts ==
    {Canon3(M, m, p) : M \in MatchComponents, m \in MatchComponents, p \in MatchComponents}

RangePrefixes == {<<>>, <<"^">>, <<"~">>}

RangeBodies ==
    {Canon3(M, m, p) : M \in MatchComponents, m \in MatchComponents, p \in MatchComponents}
    \cup {Canon2(M, m) : M \in MatchComponents, m \in MatchComponents}
    \cup {Canon1(M) : M \in MatchComponents}

RangeTexts == {pre \o body : pre \in RangePrefixes, body \in RangeBodies}

-----------------------------------------------------------------------------
(* The parser and the matcher as operations on a drawn input *)

NoMiddleware == /\ mw = Null
                /\ req = Null
                /\ res = Null
                /\ patternLastIndex = 0

InitParse ==
    /\ pc = "input"
    /\ text \in ParseTexts
    /\ rangeText = text
    /\ parsed = Null
    /\ parsedRange = Null
    /\ satisfied = FALSE
    /\ NoMiddleware

InitMatch ==
    /\ pc = "input"
    /\ text \in ClientTexts
    /\ rangeText \in RangeTexts
    /\ parsed = Null
    /\ parsedRange = Null
    /\ satisfied = FALSE
    /\ NoMiddleware

ParseVersion ==
    /\ pc = "input"
    /\ parsed' = parseVersion(text)
    /\ pc' = "version"
    /\ UNCHANGED <<text, rangeText, parsedRange, satisfied, mw, req, res, patternLastIndex>>

ParseVersionRange ==
    /\ pc = "version"
    /\ parsedRange' = parseVersionRange(rangeText)
    /\ pc' = "range"
    /\ UNCHANGED <<text, rangeText, parsed, satisfied, mw, req, res, patternLastIndex>>

VersionSatisfies ==
    /\ pc = "range"
    /\ parsed # Null
    /\ parsedRange # Null
    /\ satisfied' = versionSatisfies(parsed, parsedRange)
    /\ pc' = "matched"
    /\ UNCHANGED <<text, rangeText, parsed, parsedRange, mw, req, res, patternLastIndex>>

NextVersion == ParseVersion \/ ParseVersionRange \/ VersionSatisfies

SpecParse == InitParse /\ [][NextVersion]_vars

SpecMatch == InitMatch /\ [][NextVersion]_vars

-----------------------------------------------------------------------------
(* Inputs of the middleware *)

\* handler-map keys: the three kinds, an array-index key ("3"), a key that
\* does not parse ("v1")
Key_c1 == <<"^", "1">>

Key_t12 == <<"~", "1", ".", "2">>

Key_e123 == <<"1", ".", "2", ".", "3">>

Key_c2 == <<"^", "2">>

Key_c3 == <<"^", "3">>

Key_e3 == <<"3">>

Key_bad == <<"v", "1">>

Key_c9 == <<"^", "9">>

Entry(key, callable) == [key |-> key, callable |-> callable]

EntryPool ==
    {Entry(k, TRUE) : k \in {Key_c1, Key_t12, Key_e123, Key_c2, Key_c3, Key_e3, Key_bad}}
    \cup {Entry(Key_c9, FALSE)}

\* an object holds each key once; its entries keep their insertion order
EntryLists ==
    {l \in UNION {[1..n -> EntryPool] : n \in 0..MaxHandlers} :
        \A i \in 1..Len(l), j \in 1..Len(l) : i # j => l[i].key # l[j].key}

HandlerInputs ==
    {[isArray |-> FALSE, entries |-> l] : l \in EntryLists}
    \cup {[isArray |-> TRUE, entries |-> <<>>]}

CustomMissingMessage == "Custom missing version message"

ErrorResponseOptions ==
    { None,
      Some([EmptyErrorResponse EXCEPT !.onError = Some("returnsTrue"),
                                      !.missingVersionStatus = Some(400),
                                      !.versionNotFoundStatus = Some(404)]),
      Some([EmptyErrorResponse EXCEPT !.onError = Some("returnsFalse")]),
      Some([EmptyErrorResponse EXCEPT !.missingVersionStatus = Some(400),
                                      !.versionNotFoundStatus = Some(404)]),
      Some([EmptyErrorResponse EXCEPT !.missingVersionMessage =
                                          Some(CustomMissingMessage)]) }

\* the options that decide how a request is dispatched: every error-response
\* option with version info attached and no default handler, and the default
\* error response with a default handler or without version info
DispatchOptions ==
    {[EmptyOptions EXCEPT !.fallbackStrategy = fs,
                          !.requireVersion = rv,
                          !.defaultHandler = dae[1],
                          !.attachVersionInfo = dae[2],
                          !.errorResponse = dae[3]] :
        fs \in {None, Some("none"), Some("latest")},
        rv \in {None, Some(FALSE)},
        dae \in ({None} \X {None} \X ErrorResponseOptions)
                 \cup ({None, Some("defaultHandler")} \X {Some(FALSE)} \X {None})
                 \cup {<<Some("defaultHandler"), None, None>>}}

\* extraction options that resolve: other orders of the sources, a path
\* source, a custom function, another header name, no source at all
ExtractionOptions ==
    { [EmptyExtraction EXCEPT !.sources = Some(<<"query", "header">>)],
      [EmptyExtraction EXCEPT !.sources = Some(<<"path", "header">>)],
      [EmptyExtraction EXCEPT !.sources = Some(<<"header", "custom">>),
                              !.custom = Some("customExtractor")],
      [EmptyExtraction EXCEPT !.sources = Some(<<"custom", "path", "query">>),
                              !.custom = Some("customExtractor")],
      [EmptyExtraction EXCEPT !.header = Some([name |-> Some("X-API-Version")])],
      [EmptyExtraction EXCEPT !.sources = Some(<<>>)] }

SourceOptions ==
    {[EmptyOptions EXCEPT !.extraction = Some(ex),
                          !.fallbackStrategy = fd[1],
                          !.defaultHandler = fd[2]] :
        ex \in ExtractionOptions,
        fd \in ({None, Some("none"), Some("latest")} \X {None})
                \cup {<<None, Some("defaultHandler")>>}}

\* the options that decide whether construction succeeds
ConstructOptions ==
    { [EmptyOptions EXCEPT !.validateHandlers = Some(FALSE)],
      [EmptyOptions EXCEPT !.fallbackStrategy = Some("bogus")],
      [EmptyOptions EXCEPT !.errorResponse =
          Some([EmptyErrorResponse EXCEPT !.missingVersionStatus = Some(600)])],
      [EmptyOptions EXCEPT !.errorResponse =
          Some([EmptyErrorResponse EXCEPT !.versionNotFoundStatus = Some(99)])],
      [EmptyOptions EXCEPT !.extraction =
          Some([EmptyExtraction EXCEPT !.sources = Some(<<"header", "cookie">>)])],
      [EmptyOptions EXCEPT !.extraction =
          Some([EmptyExtraction EXCEPT !.sources = Some(<<"custom">>)])],
      [EmptyOptions EXCEPT !.extraction =
          Some([EmptyExtraction EXCEPT !.path =
                   Some([pattern |-> Some([Pattern(FALSE, FALSE, 0)
                                              EXCEPT !.regexp = FALSE])])])] }

OptionInputs == DispatchOptions \cup SourceOptions \cup ConstructOptions \cup {Null}

V_1_2_3 == <<"1", ".", "2", ".", "3">>

V_99_0_0 == <<"9", "9", ".", "0", ".", "0">>

V_2_5_padded == <<" ", "2", ".", "5", " ">>

V_3_0_0 == <<"3", ".", "0", ".", "0">>

V_junk == <<"a", "b", "c">>

V_blank == <<" ">>

HeaderValues ==
    { JsUndefined, JsString(V_1_2_3), JsString(V_99_0_0), JsString(V_2_5_padded),
      JsString(V_junk), JsString(V_blank), JsArray(<<V_3_0_0, V_1_2_3>>) }

Request(version, header, query) ==
    [version     |-> version,
     headers     |-> IF header = JsUndefined
                     THEN [host |-> JsString(<<"h">>)]
                     ELSE [host |-> JsString(<<"h">>)] @@ ("accept-version" :> header),
     query       |-> IF query = JsUndefined
                     THEN [page |-> JsString(<<"1">>)]
                     ELSE [page |-> JsString(<<"1">>), v |-> query],
     path        |-> <<"/", "a", "p", "i">>,
     url         |-> <<"/", "a", "p", "i">>,
     custom      |-> JsUndefined,
     versionInfo |-> None]

P_v2 == <<"/", "v", "2", "/", "u", "s", "e", "r", "s">>

\* a request that carries a different version in every channel
EveryChannel(version) ==
    [Request(version, JsString(V_99_0_0), JsString(V_3_0_0))
        EXCEPT !.path = P_v2, !.url = P_v2, !.custom = JsString(V_1_2_3)]

\* version info an upstream collaborator left on the request
StaleInfo == Some(VersionInfo(<<"0">>, <<"0">>, "upstream"))

\* header only; query with no header or beside one; a version pre-set on the
\* request; a version in the path, from the custom function, under another
\* header name; every channel at once, without and with a pre-set version;
\* no version, a matched and an unmatched one on a request that already
\* carries version info
Requests ==
    {Request(JsUndefined, h, JsUndefined) : h \in HeaderValues}
    \cup {Request(JsUndefined, h, JsString(V_3_0_0)) :
             h \in {JsUndefined, JsString(V_99_0_0)}}
    \cup {Request(JsString(V_1_2_3), JsString(V_99_0_0), JsUndefined)}
    \cup {[Request(JsUndefined, JsUndefined, JsUndefined)
              EXCEPT !.path = P_v2, !.url = P_v2]}
    \cup {[Request(JsUndefined, JsUndefined, JsUndefined)
              EXCEPT !.custom = JsString(V_1_2_3)]}
    \cup {[Request(JsUndefined, JsUndefined, JsUndefined)
              EXCEPT !.headers = @ @@ ("x-api-version" :> JsString(V_3_0_0))]}
    \cup {EveryChannel(JsUndefined), EveryChannel(JsString(V_2_5_padded))}
    \cup {[Request(JsUndefined, h, JsUndefined) EXCEPT !.versionInfo = StaleInfo] :
             h \in {JsUndefined, JsString(V_1_2_3), JsString(V_99_0_0)}}

\* a request and what the handler it reaches does: every request with a
\* handler that returns; a matched, an unmatched and a missing version with a
\* handler that throws or rejects
Calls ==
    {[request |-> r, behaviour |-> "returns"] : r \in Requests}
    \cup {[request |-> Request(JsUndefined, h, JsUndefined), behaviour |-> b] :
             h \in {JsUndefined, JsString(V_1_2_3), JsString(V_99_0_0)},
             b \in Behaviours \ {"returns"}}

-----------------------------------------------------------------------------
(* The middleware as a state machine: construction, then requests *)

NoVersionRun ==
    /\ text = <<>>
    /\ rangeText = <<>>
    /\ parsed = Null
    /\ parsedRange = Null
    /\ satisfied = FALSE

Init ==
    /\ pc = "new"
    /\ mw = Null
    /\ req = Null
    /\ res = Null
    /\ patternLastIndex = 0
    /\ NoVersionRun

\* versioningMiddleware(handlers, options) returns a middleware or throws
Constructed(handlers, options, out) ==
    /\ mw' = [handlers   |-> handlers,
              options    |-> options,
              thrown     |-> out.thrown,
              middleware |-> out.middleware]
    /\ pc' = IF out.thrown = None THEN "ready" ELSE "failed"
    /\ patternLastIndex' =
          IF out.thrown = None
          THEN out.middleware.config.extraction.path.pattern.lastIndex
          ELSE 0

Construct ==
    /\ pc = "new"
    /\ \E handlers \in HandlerInputs, options \in OptionInputs :
          Constructed(handlers, options, versioningMiddleware(handlers, options))
    /\ UNCHANGED <<text, rangeText, parsed, parsedRange, satisfied, req, res>>

Handled(w) ==
    /\ req' = w.req
    /\ res' = w.res
    /\ patternLastIndex' = w.lastIndex

\* the middleware handles a request
HandleRequest ==
    /\ pc = "ready"
    /\ \E c \in Calls :
          Handled(handleRequest(mw.middleware, c.request, c.behaviour, patternLastIndex))
    /\ pc' = "handled"
    /\ UNCHANGED <<text, rangeText, parsed, parsedRange, satisfied, mw>>

\* the reactions of the promises run: next is called for each rejection that
\* has a reaction, the others are unhandled rejections
RECURSIVE RunReactions(_, _)
RunReactions(promises, effects) ==
    IF promises = <<>> THEN [effects EXCEPT !.promises = <<>>]
    ELSE RunReactions(Tail(promises),
             IF Head(promises).observed
             THEN [effects EXCEPT !.nextCalls = Append(@, Head(promises).error)]
             ELSE [effects EXCEPT !.unhandled = Append(@, Head(promises).error)])

\* the promise jobs queued while the request was handled run
RunPromiseJobs ==
    /\ pc = "handled"
    /\ res.promises # <<>>
    /\ res' = RunReactions(res.promises, res)
    /\ pc' = "settled"
    /\ UNCHANGED <<text, rangeText, parsed, parsedRange, satisfied, mw, req, patternLastIndex>>

Next == Construct \/ HandleRequest \/ RunPromiseJobs

Spec == Init /\ [][Next]_vars

-----------------------------------------------------------------------------
(* The handler compiler on its own: a handler map is compiled, then a client
   version is matched against the compiled routes *)

\* keys whose ranges share a base version (^1 and ^1.0, ^0 and ^0.0.0), and
\* keys with components of 500 and more or 1000 and more
Key_c10 == <<"^", "1", ".", "0">>

Key_c0 == <<"^", "0">>

Key_c000 == <<"^", "0", ".", "0", ".", "0">>

Key_t01 == <<"~", "0", ".", "1">>

Key_c501 == <<"^", "5", "0", "1">>

Key_c1_1001 == <<"^", "1", ".", "1", "0", "0", "1">>

CompileKeys ==
    {Key_c1, Key_c10, Key_c0, Key_c000, Key_t12, Key_e123, Key_t01, Key_c501,
     Key_c1_1001, Key_c2}

\* handler maps of functions: each key once, in every insertion order
CompileMaps ==
    {l \in UNION {[1..n -> {Entry(k, TRUE) : k \in CompileKeys}] : n \in 1..MaxHandlers} :
        \A i \in 1..Len(l), j \in 1..Len(l) : i # j => l[i].key # l[j].key}

V_1_0_0 == <<"1", ".", "0", ".", "0">>

V_0_0_0 == <<"0", ".", "0", ".", "0">>

V_501_0_0 == <<"5", "0", "1", ".", "0", ".", "0">>

CompileClients == {V_1_0_0, V_0_0_0, V_1_2_3, V_501_0_0}

InitCompile ==
    /\ pc = "map"
    /\ mw \in {[handlers |-> l, compiled |-> Null] : l \in CompileMaps}
    /\ text \in CompileClients
    /\ rangeText = <<>>
    /\ parsed = Null
    /\ parsedRange = Null
    /\ satisfied = FALSE
    /\ req = Null
    /\ res = Null
    /\ patternLastIndex = 0

\* compileHandlers(handlers, true)
CompileHandlers ==
    /\ pc = "map"
    /\ mw' = [mw EXCEPT !.compiled = compileHandlers(mw.handlers, TRUE)]
    /\ pc' = "compiled"
    /\ UNCHANGED <<text, rangeText, parsed, parsedRange, satisfied, req, res,
                   patternLastIndex>>

\* findMatchingHandler(parseVersion(text), compiledHandlers)
FindMatchingHandler ==
    /\ pc = "compiled"
    /\ mw.compiled.thrown = None
    /\ parsed' = parseVersion(text)
    /\ res' = findMatchingHandler(parseVersion(text), mw.compiled.compiled)
    /\ pc' = "selected"
    /\ UNCHANGED <<text, rangeText, parsedRange, satisfied, mw, req,
                   patternLastIndex>>

NextCompile == CompileHandlers \/ FindMatchingHandler

SpecCompile == InitCompile /\ [][NextCompile]_vars

-----------------------------------------------------------------------------
(* One middleware instance serving several requests: each request function
   call runs to its end; the promise a handler returned settles later, while
   other requests may have been received *)

\* path patterns: without flags, global, sticky; fresh, or used by the caller
\* before (lastIndex 3)
ServePatterns ==
    {Pattern(FALSE, FALSE, 0), Pattern(TRUE, FALSE, 0), Pattern(FALSE, TRUE, 0),
     Pattern(TRUE, FALSE, 3), Pattern(FALSE, TRUE, 3)}

ServeOptions ==
    {[EmptyOptions EXCEPT
         !.extraction = Some([EmptyExtraction EXCEPT
                                 !.sources = Some(sources),
                                 !.path = Some([pattern |-> Some(pattern)])])] :
        sources \in {<<"path">>, <<"header", "path">>},
        pattern \in ServePatterns}

ServeHandlers ==
    {[isArray |-> FALSE, entries |-> <<Entry(Key_c1, TRUE), Entry(Key_c2, TRUE)>>]}

P_v1 == <<"/", "v", "1", "/", "u", "s", "e", "r", "s">>

P_api_v2 == <<"/", "a", "p", "i", "/", "v", "2", "/", "u", "s", "e", "r", "s">>

\* a request for a path, with no version in any other channel
PathRequest(path) ==
    [Request(JsUndefined, JsUndefined, JsUndefined) EXCEPT !.path = path, !.url = path]

\* the version segment at the start of the path, further on, a version no
\* route matches, no version segment; the handler reached returns, or returns
\* a promise that rejects later
ServeCalls ==
    {[request |-> PathRequest(path), behaviour |-> b] :
        path \in {P_v1, P_v2, P_api_v2},
        b \in {"returns", "rejects"}}
    \cup {[request |-> PathRequest(<<"/", "v", "9", "/">>), behaviour |-> "returns"],
          [request |-> PathRequest(<<"/", "a", "p", "i">>), behaviour |-> "returns"]}

\* the instance versioningMiddleware(handlers, options) returned
Serving(handlers, options, out) ==
    /\ mw = [handlers   |-> handlers,
             options    |-> options,
             thrown     |-> out.thrown,
             middleware |-> out.middleware]
    /\ patternLastIndex = out.middleware.config.extraction.path.pattern.lastIndex

InitServe ==
    /\ pc = "serving"
    /\ \E handlers \in ServeHandlers, options \in ServeOptions :
          Serving(handlers, options, versioningMiddleware(handlers, options))
    /\ req = <<>>
    /\ res = <<>>
    /\ NoVersionRun

\* the request function has run for one more request
Received(w) ==
    /\ req' = Append(req, w.req)
    /\ res' = Append(res, w.res)
    /\ patternLastIndex' = w.lastIndex

ReceiveRequest ==
    /\ pc = "serving"
    /\ Len(req) < MaxRequests
    /\ \E c \in ServeCalls :
          Received(handleRequest(mw.middleware, c.request, c.behaviour,
                                 patternLastIndex))
    /\ UNCHANGED <<pc, text, rangeText, parsed, parsedRange, satisfied, mw>>

\* the promise the handler of request i returned settles and its reactions run
SettleRequest ==
    /\ pc = "serving"
    /\ \E i \in 1..Len(res) :
          /\ res[i].promises # <<>>
          /\ res' = [res EXCEPT ![i] = RunReactions(res[i].promises, res[i])]
    /\ UNCHANGED <<pc, text, rangeText, parsed, parsedRange, satisfied, mw, req,
                   patternLastIndex>>

NextServe == ReceiveRequest \/ SettleRequest

SpecServe == InitServe /\ [][NextServe]_vars

-----------------------------------------------------------------------------
(* Claims about the parser (checked under SpecParse) *)

StartsWithRangePrefix(t) == t # <<>> /\ Head(t) \in {"^", "~"}

\* C5: parseVersion returns invalid for "", "a.b.c", "1.2.3.4", "-1.0.0" and
\* for every text that starts with ^ or ~ (such as "^1.0.0").
C5_ParseVersionRejectsPrefixed ==
    (pc # "input" /\ (text \in ExampleTexts \/ StartsWithRangePrefix(text)))
        => parsed = Null

\* C6: parseVersion of the canonical text M.m.p returns (M, m, p), of M.m
\* returns (M, m, 0), of M returns (M, 0, 0); every returned version has three
\* non-negative integer components.
C6_ParseVersionRoundTrip ==
    pc # "input" =>
        /\ text \in CanonicalTexts =>
              \A r \in CanonRecs :
                  r.text = text =>
                      /\ parsed # Null
                      /\ parsed.major = r.major
                      /\ parsed.minor = r.minor
                      /\ parsed.patch = r.patch
        /\ parsed # Null =>
              /\ parsed.major \in Nat
              /\ parsed.minor \in Nat
              /\ parsed.patch \in Nat

\* a two-digit canonical text has been parsed to its triple
C6_Witness ==
    /\ pc = "version"
    /\ text = <<"1", "0", ".", "2", ".", "1", "1">>
    /\ parsed # Null
    /\ parsed.major = 10
    /\ parsed.minor = 2
    /\ parsed.patch = 11

-----------------------------------------------------------------------------
(* Claims about the matcher (checked under SpecMatch) *)

Caret == <<"^">>

Tilde == <<"~">>

C3_CaretPositiveMajor ==
    pc = "matched" =>
        \A M \in MatchComponents \ {0}, m \in MatchComponents, p \in MatchComponents :
            rangeText = Caret \o Canon3(M, m, p) =>
                LET base  == [major |-> M, minor |-> m, patch |-> p]
                    above == [major |-> M + 1, minor |-> 0, patch |-> 0]
                IN  /\ satisfied <=> (/\ compareVersions(base, parsed) <= 0
                                      /\ compareVersions(parsed, above) < 0)
                    /\ satisfied <=> (/\ parsed.major = M
                                      /\ \/ parsed.minor > m
                                         \/ /\ parsed.minor = m
                                            /\ parsed.patch >= p)

\* ^1.2.3 has been tried against 1.3.0 (higher minor, lower patch) and accepted
C3_Witness ==
    /\ pc = "matched"
    /\ rangeText = <<"^", "1", ".", "2", ".", "3">>
    /\ text = <<"1", ".", "3", ".", "0">>
    /\ satisfied

\* C4: for ~M.m.p, versionSatisfies(c, range) holds exactly when c.major = M,
\* c.minor = m and c.patch >= p; a tilde range never matches another minor.
C4_TildePatchOnly ==
    pc = "matched" =>
        \A M \in MatchComponents, m \in MatchComponents, p \in MatchComponents :
            rangeText = Tilde \o Canon3(M, m, p) =>
                /\ satisfied <=> (/\ parsed.major = M
                                  /\ parsed.minor = m
                                  /\ parsed.patch >= p)
                /\ parsed.minor # m => ~satisfied

\* ~2.1.2 has been tried against 2.2.3 (next minor) and refused
C4_Witness ==
    /\ pc = "matched"
    /\ rangeText = <<"~", "2", ".", "1", ".", "2">>
    /\ text = <<"2", ".", "2", ".", "3">>
    /\ ~satisfied

-----------------------------------------------------------------------------
(* Claims about the middleware (checked under Spec) *)

\* the request has been handled by a middleware all of whose compiled
\* handlers are functions
HandledByFunctions ==
    /\ pc = "handled"
    /\ \A i \in 1..Len(mw.middleware.compiledHandlers) :
           mw.middleware.compiledHandlers[i].callable

\* what the extractor returned for the request handled
Extraction == res.extracted

\* the extracted version parses and no compiled route's range is satisfied by it
Unmatched ==
    /\ Extraction # Null
    /\ parseVersion(Extraction.version) # Null
    /\ \A i \in 1..Len(mw.middleware.compiledHandlers) :
           ~versionSatisfies(parseVersion(Extraction.version),
                             mw.middleware.compiledHandlers[i].range)

\* exactly one handler was invoked: that of a compiled route whose base
\* version no other compiled route's base version exceeds
InvokedLatestRoute ==
    /\ Len(res.invoked) = 1
    /\ res.invoked[1].kind = "route"
    /\ \E i \in 1..Len(mw.middleware.compiledHandlers) :
          /\ mw.middleware.compiledHandlers[i].key = res.invoked[1].key
          /\ \A j \in 1..Len(mw.middleware.compiledHandlers) :
                 compareVersions(mw.middleware.compiledHandlers[i].range.version,
                                 mw.middleware.compiledHandlers[j].range.version) >= 0

\* the one versioning error emitted was written as the response, unless the
\* onError hook was given it and answered true
WrittenUnlessHookHandled ==
    IF mw.middleware.config.errorResponse.onError = Some("returnsTrue")
    THEN res.hookCalls = res.errors /\ res.responses = <<>>
    ELSE /\ Len(res.responses) = 1
         /\ res.responses[1].status = res.errors[1].statusCode
         /\ res.responses[1].body.error = res.errors[1].code

RouteKey(key) == [kind |-> "route", key |-> key]

\* C1: for a handler map holding the keys ^1, ~1.2 and 1.2.3, in each of the 6
\* insertion orders, a request whose extracted version is 1.2.3 invokes the
\* handler registered under 1.2.3 and neither the ~1.2 nor the ^1 handler.
C1_ExactRouteWins ==
    (/\ pc = "handled"
     /\ Len(mw.handlers.entries) = 3
     /\ {mw.handlers.entries[i].key : i \in 1..3} = {Key_c1, Key_t12, Key_e123}
     /\ Extraction # Null
     /\ Extraction.version = V_1_2_3)
        => res.invoked = <<RouteKey(Key_e123)>>

\* the caret key was inserted first, the exact key last, and the exact handler ran
C1_Witness ==
    /\ pc = "handled"
    /\ Len(mw.handlers.entries) = 3
    /\ mw.handlers.entries[1].key = Key_c1
    /\ mw.handlers.entries[2].key = Key_t12
    /\ mw.handlers.entries[3].key = Key_e123
    /\ Extraction # Null
    /\ Extraction.version = V_1_2_3
    /\ res.invoked = <<RouteKey(Key_e123)>>

\* C7: with fallbackStrategy 'latest', when the extracted version parses and
\* no compiled route satisfies it, the handler invoked is that of a route
\* whose base version is >= the base version of every compiled route under
\* compareVersions, whatever the route kinds, and no error response is written.
C7_LatestFallbackInvokesHighestBase ==
    (/\ HandledByFunctions
     /\ mw.middleware.config.fallbackStrategy = "latest"
     /\ Unmatched)
        => /\ InvokedLatestRoute
           /\ res.errors = <<>>
           /\ res.responses = <<>>

\* routes ^1, ^2, ^3 and the client 99.0.0: the ^3 handler ran
C7_Witness ==
    /\ pc = "handled"
    /\ mw.middleware.config.fallbackStrategy = "latest"
    /\ {mw.handlers.entries[i].key : i \in 1..Len(mw.handlers.entries)}
           = {Key_c1, Key_c2, Key_c3}
    /\ Unmatched
    /\ Extraction.version = V_99_0_0
    /\ res.invoked = <<RouteKey(Key_c3)>>

\* C8: with fallbackStrategy 'none', when the extracted version parses and
\* matches no route, no handler is invoked and the error emitted is
\* VERSION_NOT_FOUND with status versionNotFoundStatus and an availableVersions
\* list holding the range text of every compiled route; that error is the
\* response written (status and availableVersions), unless an onError hook
\* answered true for it.
C8_NoneFallbackListsEveryRoute ==
    (/\ pc = "handled"
     /\ mw.middleware.config.fallbackStrategy = "none"
     /\ Unmatched)
        => /\ res.invoked = <<>>
           /\ res.nextCalls = <<>>
           /\ Len(res.errors) = 1
           /\ res.errors[1].code = "VERSION_NOT_FOUND"
           /\ res.errors[1].statusCode =
                  mw.middleware.config.errorResponse.versionNotFoundStatus
           /\ res.errors[1].availableVersions # None
           /\ \A i \in 1..Len(mw.middleware.compiledHandlers) :
                  \E k \in 1..Len(The(res.errors[1].availableVersions)) :
                      The(res.errors[1].availableVersions)[k]
                          = mw.middleware.compiledHandlers[i].key
           /\ WrittenUnlessHookHandled
           /\ res.responses # <<>> =>
                  res.responses[1].body.availableVersions
                      = res.errors[1].availableVersions

\* routes ^1, ^2, ^3, versionNotFoundStatus 404 and the client 99.0.0: the
\* response written is 404 VERSION_NOT_FOUND listing the three range texts
C8_Witness ==
    /\ pc = "handled"
    /\ mw.middleware.config.fallbackStrategy = "none"
    /\ Extraction # Null
    /\ Extraction.version = V_99_0_0
    /\ Len(res.responses) = 1
    /\ res.responses[1].status = 404
    /\ res.responses[1].body.error = "VERSION_NOT_FOUND"
    /\ res.responses[1].body.availableVersions # None
    /\ Len(The(res.responses[1].body.availableVersions)) = 3
    /\ {The(res.responses[1].body.availableVersions)[k] : k \in 1..3}
           = {Key_c1, Key_c2, Key_c3}
    /\ res.invoked = <<>>

\* C9: with requireVersion false and fallbackStrategy 'latest', a request from
\* which no version can be extracted invokes the latest route's handler and
\* no MISSING_VERSION error (no versioning error at all) is produced.
C9_OptionalVersionFallsBackToLatest ==
    (/\ HandledByFunctions
     /\ ~mw.middleware.config.requireVersion
     /\ mw.middleware.config.fallbackStrategy = "latest"
     /\ Extraction = Null)
        => /\ InvokedLatestRoute
           /\ res.errors = <<>>
           /\ res.hookCalls = <<>>
           /\ res.responses = <<>>

\* a request with a blank version header reached the ^2 handler of {1.2.3, ^2}
C9_Witness ==
    /\ pc = "handled"
    /\ ~mw.middleware.config.requireVersion
    /\ mw.middleware.config.fallbackStrategy = "latest"
    /\ Extraction = Null
    /\ Lookup(req.headers, "accept-version") = JsString(V_blank)
    /\ {mw.handlers.entries[i].key : i \in 1..Len(mw.handlers.entries)}
           = {Key_e123, Key_c2}
    /\ res.invoked = <<RouteKey(Key_c2)>>

-----------------------------------------------------------------------------
(* Claims about error messages, version info and handler failures
   (checked under Spec) *)

\* a request has been handled (its promise jobs may have run as well)
Done == pc \in {"handled", "settled"}

\* the missingVersionMessage the options configure, if any
ConfiguredMissingMessage ==
    IF mw.options = Null THEN None
    ELSE Chain(mw.options.errorResponse, "missingVersionMessage")

\* C11: when errorResponse.missingVersionMessage is configured, the message of
\* the MISSING_VERSION error produced for a request without a version is the
\* configured text.
C11_ConfiguredMissingMessageUsed ==
    (/\ pc = "handled"
     /\ ConfiguredMissingMessage # None
     /\ Len(res.errors) = 1
     /\ res.errors[1].code = "MISSING_VERSION")
        => /\ res.errors[1].message = Message(The(ConfiguredMissingMessage), None)
           /\ res.responses # <<>> =>
                  res.responses[1].body.message
                      = Message(The(ConfiguredMissingMessage), None)

\* C12: when version info is attached on a fallback path (the extracted
\* version parses and matches no route), its source is the source tag of the
\* extraction that produced the requested version text.
C12_FallbackSourceIsExtractionSource ==
    (/\ pc = "handled"
     /\ Unmatched
     /\ req.versionInfo # res.received.versionInfo)
        => The(req.versionInfo).source = Extraction.source

\* the extracted version parses and some compiled route's range is satisfied
Matched ==
    /\ Extraction # Null
    /\ parseVersion(Extraction.version) # Null
    /\ \E i \in 1..Len(mw.middleware.compiledHandlers) :
           versionSatisfies(parseVersion(Extraction.version),
                            mw.middleware.compiledHandlers[i].range)

\* C13: on a primary match with attachVersionInfo enabled, the version info
\* {requested: the extracted text, matched: the matched route's range text,
\* source: the extraction source tag} is on the request when the matched
\* handler is entered, so the handler observes it.
C13_VersionInfoSetBeforeHandler ==
    (/\ HandledByFunctions
     /\ mw.middleware.config.attachVersionInfo
     /\ Matched)
        => /\ Len(res.invoked) = 1
           /\ res.invoked[1].kind = "route"
           /\ \E i \in 1..Len(mw.middleware.compiledHandlers) :
                 /\ mw.middleware.compiledHandlers[i].key = res.invoked[1].key
                 /\ versionSatisfies(parseVersion(Extraction.version),
                                     mw.middleware.compiledHandlers[i].range)
           /\ res.seen = <<Some(VersionInfo(Extraction.version, res.invoked[1].key,
                                            Extraction.source))>>
           /\ req.versionInfo = res.seen[1]

\* the ^3 handler, matched by a version read from the query parameter, found
\* {requested: 3.0.0, matched: ^3, source: query} on the request
C13_Witness ==
    /\ pc = "handled"
    /\ res.invoked = <<RouteKey(Key_c3)>>
    /\ res.seen = <<Some(VersionInfo(V_3_0_0, Key_c3, "query"))>>

\* C14: when a route handler (matched, or chosen as latest) throws or returns
\* a promise that rejects, next is called exactly once with that error value:
\* at once for a throw, when the promise's reaction runs for a rejection; no
\* versioning error is produced, nothing is written, and no rejection is left
\* without a reaction.
C14_RouteHandlerFailureReachesNextOnce ==
    (/\ Done
     /\ res.invoked # <<>>
     /\ res.invoked[1].kind = "route"
     /\ res.outcomes[1] # "returns")
        => /\ Len(res.invoked) = 1
           /\ res.errors = <<>>
           /\ res.responses = <<>>
           /\ res.escaped = <<>>
           /\ res.unhandled = <<>>
           /\ res.outcomes[1] = "throws" =>
                  (res.nextCalls = <<HandlerError>> /\ res.promises = <<>>)
           /\ (res.outcomes[1] = "rejects" /\ pc = "handled") =>
                  (res.promises = <<Rejected(HandlerError, TRUE)>>
                   /\ res.nextCalls = <<>>)
           /\ (res.outcomes[1] = "rejects" /\ pc = "settled") =>
                  (res.nextCalls = <<HandlerError>> /\ res.promises = <<>>)

\* the handler chosen as latest for the unmatched 99.0.0 returned a promise
\* that rejected; its reaction has run and next was called once with the error
C14_Witness ==
    /\ pc = "settled"
    /\ mw.middleware.config.fallbackStrategy = "latest"
    /\ Unmatched
    /\ Len(res.invoked) = 1
    /\ res.invoked[1].kind = "route"
    /\ res.outcomes = <<"rejects">>
    /\ res.nextCalls = <<HandlerError>>
    /\ res.unhandled = <<>>

\* C15: with fallbackStrategy 'default' and a configured defaultHandler, when
\* the default handler fails, the error reaches the framework's error channel
\* exactly as for a route handler: next(error) (a synchronous throw that
\* leaves the request function is counted as delivered, the framework
\* catches it), and no rejection is left without a reaction.
C15_DefaultHandlerFailureReachesNext ==
    (/\ Done
     /\ res.promises = <<>>
     /\ res.invoked # <<>>
     /\ res.invoked[1].kind = "default"
     /\ res.outcomes[1] # "returns")
        => /\ res.nextCalls \o res.escaped = <<HandlerError>>
           /\ res.unhandled = <<>>

\* C16: constructing the middleware with a fallbackStrategy outside
\* {none, latest, default} fails at construction with an invalid-configuration
\* error; no middleware is returned.
C16_UnknownFallbackStrategyRejected ==
    (/\ pc # "new"
     /\ mw.options # Null
     /\ mw.options.fallbackStrategy # None
     /\ The(mw.options.fallbackStrategy) \notin {"none", "latest", "default"})
        => /\ mw.thrown # None
           /\ The(mw.thrown).code = "INVALID_CONFIGURATION"
           /\ mw.middleware = Null

-----------------------------------------------------------------------------
(* Claims about handler validation and version extraction
   (checked under Spec) *)

\* construction has just ended, having got as far as compiling the handler map
ReachedCompile ==
    /\ pc \in {"ready", "failed"}
    /\ ~mw.handlers.isArray
    /\ resolveConfig(mw.options).thrown = None

\* the validateHandlers setting the options resolve to
Validating == resolveConfig(mw.options).config.validateHandlers

\* C17: with validateHandlers true, construction throws INVALID_HANDLER
\* whenever a key of the handler map fails parseVersionRange or a value is not
\* callable, so no middleware holds such a route; with validateHandlers false,
\* the keys that fail to parse are skipped: the routes are exactly the entries
\* whose key parses.
C17_InvalidHandlersRejectedOrSkipped ==
    ReachedCompile =>
        /\ (/\ \E i \in 1..Len(mw.handlers.entries) :
                   \/ ~mw.handlers.entries[i].callable
                   \/ parseVersionRange(mw.handlers.entries[i].key) = Null
            /\ Validating)
              => /\ pc = "failed"
                 /\ mw.middleware = Null
                 /\ mw.thrown # None
                 /\ The(mw.thrown).code = "INVALID_HANDLER"
        /\ mw.middleware # Null =>
              /\ \A i \in 1..Len(mw.middleware.compiledHandlers) :
                     /\ mw.middleware.compiledHandlers[i].range
                            = parseVersionRange(mw.middleware.compiledHandlers[i].key)
                     /\ mw.middleware.compiledHandlers[i].range # Null
                     /\ mw.middleware.config.validateHandlers =>
                            mw.middleware.compiledHandlers[i].callable
              /\ {mw.middleware.compiledHandlers[i].key :
                     i \in 1..Len(mw.middleware.compiledHandlers)}
                     = {mw.handlers.entries[i].key :
                           i \in {j \in 1..Len(mw.handlers.entries) :
                                     parseVersionRange(mw.handlers.entries[j].key) # Null}}

\* validating, the map {^1, v1} (the bad key last) was refused with INVALID_HANDLER
C17_Witness ==
    /\ pc = "failed"
    /\ ReachedCompile
    /\ Validating
    /\ Len(mw.handlers.entries) = 2
    /\ mw.handlers.entries[1].key = Key_c1
    /\ mw.handlers.entries[2].key = Key_bad
    /\ mw.thrown # None
    /\ The(mw.thrown).code = "INVALID_HANDLER"

\* the request carries a version set by an upstream collaborator
PreSet == req.version.type = "string" /\ Trim(req.version.value) # <<>>

\* C18: when the request already carries a non-empty (after trimming) version,
\* extraction returns that value whatever the configured sources and their
\* order, even if header, query, path or custom extractor would give another
\* version; no configured strategy is run.
C18_PreSetVersionWins ==
    (Done /\ PreSet)
        => /\ Extraction # Null
           /\ Extraction.version = Trim(req.version.value)
           /\ res.consulted = <<>>
           /\ Len(res.errors) = 1 =>
                  (res.errors[1].requestedVersion # None =>
                       res.errors[1].requestedVersion = Some(Trim(req.version.value)))
           /\ req.versionInfo # res.received.versionInfo =>
                  The(req.versionInfo).requested = Trim(req.version.value)

\* sources custom, path, query all yield another version; the pre-set " 2.5 "
\* was returned trimmed and no strategy ran
C18_Witness ==
    /\ pc = "handled"
    /\ req.version = JsString(V_2_5_padded)
    /\ req.custom = JsString(V_1_2_3)
    /\ req.path = P_v2
    /\ mw.middleware.config.extraction.sources = <<"custom", "path", "query">>
    /\ Extraction # Null
    /\ Extraction.version = <<"2", ".", "5">>
    /\ res.consulted = <<>>

\* C19: a value pre-set on the request gets a source tag of its own,
\* different from the tags of header, query, path and custom-function
\* extraction.
C19_PreSetSourceTagDistinct ==
    (Done /\ PreSet /\ Extraction # Null)
        => Extraction.source \notin {"header", "query", "path", "custom"}

\* what the strategy of the i-th configured source yields for the request
Yield(i) ==
    ExtractFromSource(mw.middleware.config, req,
                      mw.middleware.config.extraction.sources[i],
                      patternLastIndex).value

\* C20: absent a pre-set version, extraction runs the configured sources in
\* their configured order and returns the value and tag of the first that
\* yields a non-empty value; the sources after it are not run; the result is
\* absent only if every configured source yields nothing.
C20_FirstYieldingSourceWins ==
    (Done /\ ~PreSet)
        => LET sources  == mw.middleware.config.extraction.sources
               yielding == {i \in 1..Len(sources) : Truthy(Yield(i))}
           IN  IF yielding = {}
               THEN Extraction = Null /\ res.consulted = sources
               ELSE LET first == CHOOSE i \in yielding : \A j \in yielding : i <= j
                    IN  /\ Extraction # Null
                        /\ Extraction.version = The(Yield(first))
                        /\ Extraction.source = sources[first]
                        /\ res.consulted = SubSeq(sources, 1, first)

\* sources header, custom: the header yielded 99.0.0 and the custom function,
\* which would have returned 1.2.3, was not called
C20_Witness ==
    /\ pc = "handled"
    /\ ~PreSet
    /\ mw.middleware.config.extraction.sources = <<"header", "custom">>
    /\ req.custom = JsString(V_1_2_3)
    /\ Extraction # Null
    /\ Extraction.version = V_99_0_0
    /\ Extraction.source = "header"
    /\ res.consulted = <<"header">>

-----------------------------------------------------------------------------
(* Claims about error dispatch, fallbacks and terminal actions
   (checked under Spec) *)

\* C22: every versioning error emitted for a request is offered to the
\* configured onError hook; when the hook answers true the engine writes no
\* response; when there is no hook or it does not answer true the engine
\* writes exactly one payload, with the error's status code and a body
\* holding error (the code) and message.
C22_HookOfferedThenDefaultPayload ==
    (Done /\ res.errors # <<>>)
        => /\ Len(res.errors) = 1
           /\ res.hookCalls =
                  IF mw.middleware.config.errorResponse.onError # None
                  THEN res.errors ELSE <<>>
           /\ IF mw.middleware.config.errorResponse.onError = Some("returnsTrue")
              THEN res.responses = <<>>
              ELSE /\ Len(res.responses) = 1
                   /\ res.responses[1].status = res.errors[1].statusCode
                   /\ res.responses[1].body.error = res.errors[1].code
                   /\ res.responses[1].body.message = res.errors[1].message

\* the hook declined the INVALID_VERSION_FORMAT error of a junk header and
\* the default payload was written with status 400
C22_Witness ==
    /\ pc = "handled"
    /\ mw.middleware.config.errorResponse.onError = Some("returnsFalse")
    /\ Len(res.errors) = 1
    /\ res.errors[1].code = "INVALID_VERSION_FORMAT"
    /\ res.hookCalls = res.errors
    /\ Len(res.responses) = 1
    /\ res.responses[1].status = 400

\* the fallback is taken: the extracted version parses and matches no route, or
\* no version was extracted and none is required
FallbackTaken ==
    \/ Unmatched
    \/ Extraction = Null /\ ~mw.middleware.config.requireVersion

\* the handlers the same middleware invokes for the request as it was
\* received when its fallbackStrategy is 'latest'
InvokedUnderLatest ==
    handleRequest([mw.middleware EXCEPT !.config.fallbackStrategy = "latest"],
                  res.received, "returns", patternLastIndex).res.invoked

\* C23: with fallbackStrategy 'default', when the fallback is taken: if a
\* defaultHandler is configured it is the only handler invoked; if none is
\* configured the handler invoked is exactly the one fallbackStrategy 'latest'
\* invokes for the same routes and request.
C23_DefaultStrategyHandlerOrLatest ==
    (/\ pc = "handled"
     /\ mw.middleware.config.fallbackStrategy = "default"
     /\ FallbackTaken)
        => /\ res.errors = <<>>
           /\ IF mw.middleware.config.defaultHandler # None
              THEN res.invoked = <<[kind |-> "default"]>>
              ELSE res.invoked = InvokedUnderLatest

\* no default handler, routes ^1, ^2, ^3 and the client 99.0.0: the ^3
\* handler ran, as under 'latest'
C23_Witness ==
    /\ pc = "handled"
    /\ mw.middleware.config.fallbackStrategy = "default"
    /\ mw.middleware.config.defaultHandler = None
    /\ {mw.handlers.entries[i].key : i \in 1..Len(mw.handlers.entries)}
           = {Key_c1, Key_c2, Key_c3}
    /\ Unmatched
    /\ Extraction.version = V_99_0_0
    /\ res.invoked = <<RouteKey(Key_c3)>>
    /\ InvokedUnderLatest = <<RouteKey(Key_c3)>>

\* C25: for every handler map and options the constructor accepts and for
\* every request, handling the request ends in exactly one terminal action:
\* exactly one handler is invoked or exactly one versioning error is emitted;
\* never both, never two handlers, never none.
C25_ExactlyOneTerminalAction ==
    pc = "handled" => Len(res.invoked) + Len(res.errors) = 1

\* no key of the handler map parses as a range (so for the empty map too)
NoKeyParses ==
    \A i \in 1..Len(mw.handlers.entries) :
        parseVersionRange(mw.handlers.entries[i].key) = Null

\* C28: every middleware that construction returns holds at least one
\* compiled route: an empty handler map, or with validateHandlers false a map
\* whose keys all fail to parse, is rejected at construction with
\* INVALID_CONFIGURATION; hence under 'latest', and under 'default' without a
\* default handler, no request ends with VERSION_NOT_FOUND.
C28_AtLeastOneCompiledRoute ==
    /\ (pc # "new" /\ mw.middleware # Null)
          => Len(mw.middleware.compiledHandlers) >= 1
    /\ (/\ ReachedCompile
        /\ mw.handlers.entries = <<>> \/ ~Validating
        /\ NoKeyParses)
          => /\ pc = "failed"
             /\ mw.middleware = Null
             /\ mw.thrown # None
             /\ The(mw.thrown).code = "INVALID_CONFIGURATION"
    /\ (/\ Done
        /\ \/ mw.middleware.config.fallbackStrategy = "latest"
           \/ /\ mw.middleware.config.fallbackStrategy = "default"
              /\ mw.middleware.config.defaultHandler = None)
          => \A i \in 1..Len(res.errors) : res.errors[i].code # "VERSION_NOT_FOUND"

\* with validateHandlers false the map {v1: h}, whose only key does not
\* parse, was refused with INVALID_CONFIGURATION
C28_Witness ==
    /\ pc = "failed"
    /\ ReachedCompile
    /\ ~Validating
    /\ mw.handlers.entries = <<Entry(Key_bad, TRUE)>>
    /\ mw.thrown # None
    /\ The(mw.thrown).code = "INVALID_CONFIGURATION"

-----------------------------------------------------------------------------
(* Claims about what the engine writes on the request (checked under Spec) *)

\* C30: the engine writes versionInfo on a request only when
\* attachVersionInfo is enabled, a version text was extracted from the request
\* and a handler is about to be invoked (it is called next); with
\* attachVersionInfo false, on every error path and on a fallback taken with
\* no extracted version, versionInfo is left as it was when the request
\* arrived; nothing else on the request is written.
C30_VersionInfoWrittenOnlyForHandlers ==
    Done =>
        /\ req = [res.received EXCEPT !.versionInfo = req.versionInfo]
        /\ req.versionInfo # res.received.versionInfo =>
              /\ mw.middleware.config.attachVersionInfo
              /\ Extraction # Null
              /\ req.versionInfo # None
              /\ The(req.versionInfo).requested = Extraction.version
              /\ res.errors = <<>>
              /\ \/ Len(res.invoked) = 1 /\ res.seen = <<req.versionInfo>>
                 \/ res.invoked = <<>> /\ res.nextCalls = <<"TypeError">>
        /\ (\/ ~mw.middleware.config.attachVersionInfo
            \/ res.errors # <<>>
            \/ Extraction = Null)
              => req.versionInfo = res.received.versionInfo

\* a request that arrived with version info and no version, requireVersion
\* false and strategy 'latest': the latest handler ran and found the version
\* info as it arrived
C30_Witness ==
    /\ pc = "handled"
    /\ mw.middleware.config.attachVersionInfo
    /\ mw.middleware.config.fallbackStrategy = "latest"
    /\ Extraction = Null
    /\ res.received.versionInfo = StaleInfo
    /\ Len(res.invoked) = 1
    /\ res.seen = <<StaleInfo>>
    /\ req.versionInfo = StaleInfo

-----------------------------------------------------------------------------
(* Claims about the order of the compiled routes (checked under SpecCompile) *)

\* the place of a route kind in the order: exact, then tilde, then caret
KindRank(type) ==
    CASE type = "exact" -> 1
      [] type = "tilde" -> 2
      [] type = "caret" -> 3

\* C24: for every handler map whose keys parse, with no upper bound on the
\* version components, in the compiled list every exact route precedes every
\* tilde route, every tilde route every caret route, and within one kind no
\* route follows a route with a lower base version (by compareVersions).
C24_CompiledOrderByKindThenVersion ==
    pc \in {"compiled", "selected"} =>
        \A i \in 1..Len(mw.compiled.compiled), j \in 1..Len(mw.compiled.compiled) :
            i < j =>
                /\ KindRank(mw.compiled.compiled[i].range.type)
                       <= KindRank(mw.compiled.compiled[j].range.type)
                /\ mw.compiled.compiled[i].range.type
                       = mw.compiled.compiled[j].range.type
                      => compareVersions(mw.compiled.compiled[i].range.version,
                                         mw.compiled.compiled[j].range.version) >= 0

\* the insertion orders of the entries of a handler map
Orders(entries) ==
    {l \in [1..Len(entries) -> {entries[i] : i \in 1..Len(entries)}] :
        \A i \in 1..Len(l), j \in 1..Len(l) : i # j => l[i] # l[j]}

\* the key findMatchingHandler selects, Null when no route matches
SelectedKey(handler) == IF handler = Null THEN Null ELSE handler.key

\* C27: two routes of a handler map with different range texts never get the
\* same priority, so for every client version the handler findMatchingHandler
\* selects is the same for every insertion order of the map's keys.
C27_PriorityTotalOrder ==
    /\ pc \in {"compiled", "selected"} =>
          \A i \in 1..Len(mw.compiled.compiled), j \in 1..Len(mw.compiled.compiled) :
              mw.compiled.compiled[i].key # mw.compiled.compiled[j].key
                  => mw.compiled.compiled[i].priority
                         # mw.compiled.compiled[j].priority
    /\ pc = "selected" =>
          \A l \in Orders(mw.handlers) :
              SelectedKey(findMatchingHandler(parsed,
                              compileHandlers(l, TRUE).compiled))
                  = SelectedKey(res)

-----------------------------------------------------------------------------
(* Claims about requests served by one instance (checked under SpecServe) *)

\* the path pattern of the instance and the lastIndex it was constructed with
ServedPattern == mw.middleware.config.extraction.path.pattern

\* the path strategy has run for some request
PathStrategyRan ==
    \E i \in 1..Len(res) :
        \E k \in 1..Len(res[i].consulted) : res[i].consulted[k] = "path"

\* C21: path extraction with a pattern that carries match-position state
\* (global or sticky) is scoped per call: after every extraction the
\* pattern's lastIndex is 0, and for any sequence of requests through the
\* same middleware the value extracted from a request is the one a fresh
\* pattern extracts from it, so it depends on that request only (two
\* sequential requests for the same path both match).
C21_PathPatternPositionScopedPerCall ==
    (pc = "serving" /\ (ServedPattern.global \/ ServedPattern.sticky))
        => /\ PathStrategyRan => patternLastIndex = 0
           /\ \A i \in 1..Len(res) :
                  res[i].extracted
                      = extractVersion(mw.middleware.config, res[i].received, 0).result
           /\ \A i \in 1..Len(res), j \in 1..Len(res) :
                  res[i].received = res[j].received
                      => res[i].extracted = res[j].extracted

\* a global pattern the caller had used before (lastIndex 3): two requests
\* for /v2/users in a row both yielded 2 from the path
C21_Witness ==
    /\ pc = "serving"
    /\ ServedPattern = Pattern(TRUE, FALSE, 3)
    /\ Len(res) = 2
    /\ \A i \in 1..2 :
          /\ res[i].received.path = P_v2
          /\ res[i].extracted = [version |-> <<"2">>, source |-> "path"]
    /\ patternLastIndex = 0

\* what a handler called for the request did (nothing to choose when none ran)
BehaviourOf(effects) ==
    IF effects.outcomes = <<>> THEN "returns" ELSE effects.outcomes[1]

\* the dispatch decision for a request: what was extracted, the handler
\* invoked and the version info it found, or the error emitted and written
Decision(effects) ==
    [extracted |-> effects.extracted,
     invoked   |-> effects.invoked,
     seen      |-> effects.seen,
     errors    |-> effects.errors,
     hookCalls |-> effects.hookCalls,
     responses |-> effects.responses]

\* the request handled alone by the instance as it was constructed
Alone(effects) ==
    handleRequest(mw.middleware, effects.received, BehaviourOf(effects),
                  ServedPattern.lastIndex)

\* C26: for the requests one middleware instance handles, interleaved in any
\* order at the points where a handler's promise is awaited, the dispatch
\* decision for each request and the metadata attached to it equal those it
\* gets when handled alone; the instance (compiled routes, resolved
\* configuration) stays as constructed.
C26_RequestsDecidedIndependently ==
    pc = "serving" =>
        /\ mw.middleware = versioningMiddleware(mw.handlers, mw.options).middleware
        /\ \A i \in 1..Len(res) :
               /\ req[i] = Alone(res[i]).req
               /\ Decision(res[i]) = Decision(Alone(res[i]).res)

\* three requests: the promise of the first handler is still pending when
\* the second and third, for other paths, have been decided
C26_Witness ==
    /\ pc = "serving"
    /\ ServedPattern = Pattern(FALSE, TRUE, 3)
    /\ Len(res) = 3
    /\ res[1].received.path = P_v1
    /\ res[1].promises # <<>>
    /\ res[2].received.path = P_v2
    /\ res[2].invoked = <<RouteKey(Key_c2)>>
    /\ res[2].promises = <<>>
    /\ res[2].nextCalls = <<HandlerError>>
    /\ res[3].received.path = P_api_v2
    /\ res[3].extracted = Null
    /\ The(req[1].versionInfo).matched = Key_c1
    /\ The(req[2].versionInfo).matched = Key_c2

=============================================================================
